---- MODULE Spec2Model ----
(***************************************************************************)
(* secuRAG: the filter execution engine (Module, KeywordFilter,            *)
(* RegexFilter, Pipe) and the gateway handlers that run it.                *)
(*                                                                         *)
(* Python values are modelled as follows.                                  *)
(*   - None is the empty tuple, a present value x is <<x>> (Some(x)).      *)
(*   - A dict is a TLA+ record (a function on strings); {**a, **b} is      *)
(*     Merge(a, b).                                                        *)
(*   - A str is a sequence of characters; a query is a record that says    *)
(*     whether the object handed to the module is a str at all (the        *)
(*     gateway passes whatever JSON value came as "content").              *)
(*   - The wall-clock stamp logged_time is not modelled.                   *)
(***************************************************************************)
EXTENDS Integers, Sequences, FiniteSets, TLC

\* ------------------------------------------------------------------ bounds
\* Largest threshold key of a keywords_by_threshold / patterns_by_threshold map.
MaxThreshold == 2
\* Largest number of modules in the pipe.
MaxModules == 2
\* Largest max_workers of the thread pipe.
MaxWorkers == 2
\* Largest number of pipes of an executor, input and output pipes together.
MaxPipes == 3
\* Largest number of rows the audit table holds.
MaxRows == 2
\* Largest number of "database is locked" errors one row's insert meets.
MaxLocks == 6
\* The conversations and the messages the application server may hold.
MaxConversations == 2
MaxMessages == 4
\* Largest limit a paging client asks for.
MaxLimit == 3
\* Latest updated_at of a conversation, in microseconds.
MaxTick == 2

\* ------------------------------------------------------------ Python values
None == << >>
Some(x) == << x >>
EmptyDict == [k \in {} |-> None]
Merge(a, b) == [k \in (DOMAIN a) \cup (DOMAIN b) |-> IF k \in DOMAIN b THEN b[k] ELSE a[k]]

\* The query strings tried: "", "a", "ab", "ba".
Strings == {<< >>, << "a" >>, << "a", "b" >>, << "b", "a" >>}
\* Readings of time.perf_counter(), a monotonic clock.
Ticks == {0, 1}
Str(s) == [str |-> TRUE, val |-> s]
\* A query that is not a str (a JSON number, null for a library caller, ...).
NotAStr == [str |-> FALSE, val |-> << >>]
Queries == {Str(s) : s \in Strings} \cup {NotAStr}

\* kw in query, for two str objects.
Contains(kw, s) == \E i \in 0..(Len(s) - Len(kw)) : SubSeq(s, i + 1, i + Len(kw)) = kw
\* patt.search(query) is not None, for the patterns "lit" and "^lit".
RegexSearch(p, s) ==
    IF p.anchored
    THEN Len(p.lit) <= Len(s) /\ SubSeq(s, 1, Len(p.lit)) = p.lit
    ELSE Contains(p.lit, s)

\* --------------------------------------------------------------- Module base
\* The audit record Module.__init__ and Module.reset build.
FreshAuditLog(name, id) == [name |-> name, id |-> id, log |-> EmptyDict, status |-> "noexec"]

ModuleResetKeepFlag(m) ==
    [m EXCEPT !.audit_log = FreshAuditLog(m.name, m.id),
              !.score = None,
              !.exec_time = None]
ModuleReset(m) ==
    [m EXCEPT !.audit_log = FreshAuditLog(m.name, m.id),
              !.flag = FALSE,
              !.score = None,
              !.exec_time = None]

ModuleSetFlagDropped(m, flag) == m
\* Module.set_flag
ModuleSetFlag(m, flag) == [m EXCEPT !.flag = flag]

ModuleLogAuditNoGate(m, value, level) ==
    IF level = "log"
    THEN [m EXCEPT !.audit_log = [@ EXCEPT !.log = Merge(@, value)]]
    ELSE [m EXCEPT !.audit_log = Merge(@, value)]
\* Module.log_audit
ModuleLogAudit(m, value, level) ==
    IF ~m.audit
    THEN [m EXCEPT !.audit_log = [@ EXCEPT !.status = "disabled"]]
    ELSE IF level = "log"
         THEN [m EXCEPT !.audit_log = [@ EXCEPT !.log = Merge(@, value)]]
         ELSE [m EXCEPT !.audit_log = Merge(@, value)]

ModuleFlaggedResponse(m) == IF m.flag THEN m.default_flagged_response ELSE ""

\* ------------------------------------------------- KeywordFilter / RegexFilter
\* sorted(keys)
Sorted(S) ==
    LET RECURSIVE Asc(_)
        Asc(T) == IF T = {} THEN << >>
                  ELSE LET x == CHOOSE x \in T : \A y \in T : x <= y
                       IN << x >> \o Asc(T \ {x})
    IN Asc(S)

\* Whether one term of a bucket matches: kw in query / patt.search(query).
TermMatches(m, term, s) ==
    IF m.kind = "RegexFilter" THEN RegexSearch(term, s) ELSE Contains(term, s)

\* matched = [kw for kw in bucket if kw in query]
Matched(m, bucket, s) == SelectSeq(bucket, LAMBDA term : TermMatches(m, term, s))

\* count_distinct = len(matched)
CountDistinct(matched) == Len(matched)

NeverBreak(m) == FALSE
\* if self.stop_on_flag: break
BreakOnFlag(m) == m.stop_on_flag

\* The for loop of run over the sorted thresholds still to visit. A query that
\* is not a str makes the first membership test (or pattern search) raise
\* TypeError, so the loop raises at the first non-empty bucket it reaches.
RECURSIVE EvalBuckets(_, _, _)
EvalBuckets(m, q, keys) ==
    IF keys = << >> THEN [m |-> m, raised |-> FALSE]
    ELSE LET threshold == Head(keys)
             bucket == m.by_threshold[threshold]
         IN IF ~q.str /\ bucket # << >> THEN [m |-> m, raised |-> TRUE]
            ELSE LET matched == Matched(m, bucket, q.val)
                     count == CountDistinct(matched)
                     m1 == [m EXCEPT !.last_identified =
                                        Merge(@, [t \in {threshold} |-> matched])]
                 IN IF count >= threshold
                    THEN LET m2 == [ModuleSetFlag(m1, TRUE) EXCEPT !.last_triggered =
                                      Append(@, [threshold |-> threshold,
                                                 count |-> count,
                                                 matched |-> matched])]
                         IN IF BreakOnFlag(m2) THEN [m |-> m2, raised |-> FALSE]
                            ELSE EvalBuckets(m2, q, Tail(keys))
                    ELSE EvalBuckets(m1, q, Tail(keys))

\* KeywordFilter.run and RegexFilter.run: [m, raised, result].
FilterRun(m, q) ==
    LET m0 == [m EXCEPT !.last_triggered = << >>, !.last_identified = EmptyDict]
        e == EvalBuckets(m0, q, Sorted(DOMAIN m0.by_threshold))
    IN IF e.raised THEN [m |-> e.m, raised |-> TRUE, result |-> q]
       ELSE [m |-> ModuleLogAudit(e.m, [input |-> q, output |-> q,
                                        identified |-> e.m.last_identified,
                                        triggered |-> e.m.last_triggered,
                                        stop_on_flag |-> e.m.stop_on_flag], "log"),
             raised |-> FALSE, result |-> q]

\* KeywordFilter.flagged_response / RegexFilter.flagged_response. The detailed
\* message is a non-empty text that names the triggered buckets.
FilterFlaggedResponse(m) ==
    IF ~m.flag THEN ""
    ELSE IF m.last_triggered # << >> THEN "The query was flagged by policy: detail."
    ELSE m.default_flagged_response

\* module.flagged_response(), dispatched on the class.
FlaggedResponse(m) ==
    IF m.kind \in {"KeywordFilter", "RegexFilter"}
    THEN FilterFlaggedResponse(m)
    ELSE ModuleFlaggedResponse(m)

\* A module whose run is written by the user of the library (run is
\* abstract): it returns the query with "a" appended (a TypeError when the
\* query is no str) and logs what it got and what it returns.
CustomRun(m, q) ==
    IF ~q.str THEN [m |-> m, raised |-> TRUE, result |-> q]
    ELSE LET out == [q EXCEPT !.val = Append(@, "a")]
         IN [m |-> ModuleLogAudit(m, [input |-> q, output |-> out], "log"),
             raised |-> FALSE, result |-> out]

\* self.run(query), dispatched on the class.
ModuleRun(m, q) ==
    IF m.kind \in {"KeywordFilter", "RegexFilter"} THEN FilterRun(m, q) ELSE CustomRun(m, q)

\* ------------------------------------------------------------- Module._run
ModuleTryNoFlagOnError(m, q) ==
    LET r == ModuleRun(ModuleReset(m), q)
    IN IF ~r.raised
       THEN [m |-> ModuleLogAudit(r.m, [status |-> "success", flag |-> r.m.flag,
                                        score |-> r.m.score], "main"),
             result |-> r.result, raised |-> FALSE]
       ELSE LET m2 == ModuleLogAudit(r.m, [message |-> "TypeError",
                                           traceback |-> "Traceback"], "log")
            IN [m |-> ModuleLogAudit(m2, [status |-> "error", flag |-> m2.flag,
                                          score |-> m2.score], "main"),
                result |-> q, raised |-> TRUE]
\* The try/except of _run: [m, result, raised] (raised: the except branch ran).
ModuleTry(m, q) ==
    LET r == ModuleRun(ModuleReset(m), q)
    IN IF ~r.raised
       THEN [m |-> ModuleLogAudit(r.m, [status |-> "success", flag |-> r.m.flag,
                                        score |-> r.m.score], "main"),
             result |-> r.result, raised |-> FALSE]
       ELSE LET m1 == ModuleSetFlag(r.m, TRUE)
                m2 == ModuleLogAudit(m1, [message |-> "TypeError",
                                          traceback |-> "Traceback"], "log")
            IN [m |-> ModuleLogAudit(m2, [status |-> "error", flag |-> m2.flag,
                                          score |-> m2.score], "main"),
                result |-> q, raised |-> TRUE]

ElapsedBackwards(start, end) == (start - end) * 1000
\* (time.perf_counter() - start) * 1000
ElapsedMs(start, end) == (end - start) * 1000

\* Module.__call__: _run under _time_logger, with the performance counter
\* reading start at entry and end in the finally block.
ModuleCall(m, q, start, end) ==
    LET r == ModuleTry(m, q)
        t == ElapsedMs(start, end)
        m1 == [r.m EXCEPT !.exec_time = Some(t)]
    IN [m |-> ModuleLogAudit(m1, [execution_time |-> t], "main"),
        result |-> r.result, raised |-> r.raised]

\* ------------------------------------------------------------ configurations
KwA == << "a" >>
KwB == << "b" >>
\* The two terms a bucket may list: the keywords "a" and "b", or the patterns
\* "a" and "^b".
TermA(kind) == IF kind = "RegexFilter" THEN [anchored |-> FALSE, lit |-> KwA] ELSE KwA
TermB(kind) == IF kind = "RegexFilter" THEN [anchored |-> TRUE, lit |-> KwB] ELSE KwB
\* The lists a bucket may hold: no term, one term, a term listed twice, two terms.
Buckets(kind) ==
    {<< >>, << TermA(kind) >>, << TermA(kind), TermA(kind) >>, << TermA(kind), TermB(kind) >>}
\* The maps tried, all of which the constructors accept: one or two buckets,
\* with keys >= 1.
ThresholdMaps(kind) ==
    UNION {[K -> Buckets(kind)] : K \in {{a, b} : a, b \in 1..MaxThreshold}}
DefaultResponses == {"", "Query flagged by policy."}

\* Module.__init__ followed by the filter's __init__.
NewFilter(kind, name, by_threshold, stop_on_flag, audit, default_flagged_response) ==
    [kind |-> kind, name |-> name, audit |-> audit,
     default_flagged_response |-> default_flagged_response,
     by_threshold |-> by_threshold, stop_on_flag |-> stop_on_flag,
     id |-> None, audit_log |-> FreshAuditLog(name, None),
     flag |-> FALSE, score |-> None, exec_time |-> None,
     last_triggered |-> << >>, last_identified |-> EmptyDict]

\* ---------------------------------------------------------- the constructors
\* What a caller may pass as keywords_by_threshold / patterns_by_threshold:
\* something that is no dict, or a dict given by its entries in insertion
\* order. A key is an int or not (the str "1"); a value is a list of str or not.
IntKey(n) == [int |-> TRUE, val |-> n]
StrKey == [int |-> FALSE, val |-> 1]
NotADict == [is_dict |-> FALSE, entries |-> << >>]
Dict(entries) == [is_dict |-> TRUE, entries |-> entries]
NotAList == [is_list |-> FALSE, items |-> << >>]
ListOf(terms) == [is_list |-> TRUE, items |-> terms]
\* The term "(": a keyword like any other, and a pattern re.compile rejects.
Paren(kind) ==
    IF kind = "RegexFilter" THEN [anchored |-> FALSE, lit |-> << "(" >>] ELSE << "(" >>
\* re.compile(p, regex_flags) succeeds: p has no unbalanced parenthesis.
Compiles(p) == \A i \in DOMAIN p.lit : p.lit[i] # "("

BadKeyAllowsZero(k) == ~k.int \/ k.val < 0
\* not isinstance(k, int) or k < 1
BadKey(k) == ~k.int \/ k.val < 1

\* The validation loop of the constructors over the entries from position i
\* on: the exception it raises, "" if none.
RECURSIVE ValidateEntries(_, _, _)
ValidateEntries(kind, entries, i) ==
    IF i > Len(entries) THEN ""
    ELSE LET k == entries[i].key
             v == entries[i].value
         IN IF BadKey(k) THEN "ValueError"
            ELSE IF ~v.is_list THEN "TypeError"
            ELSE IF kind = "RegexFilter" /\ \E j \in DOMAIN v.items : ~Compiles(v.items[j])
                 THEN "ValueError"
                 ELSE ValidateEntries(kind, entries, i + 1)

\* The dict the instance keeps: threshold -> bucket.
ToMap(entries) ==
    [t \in {entries[i].key.val : i \in DOMAIN entries} |->
        (CHOOSE e \in {entries[i] : i \in DOMAIN entries} : e.key.val = t).value.items]

\* Module.__init__ for a module of the user's own class.
NewCustomModule(name, audit) ==
    [kind |-> "Custom", name |-> name, audit |-> audit,
     default_flagged_response |-> "The query was flagged.",
     id |-> None, audit_log |-> FreshAuditLog(name, None),
     flag |-> FALSE, score |-> None, exec_time |-> None]

\* KeywordFilter(name, keywords_by_threshold, ...) and RegexFilter(name,
\* patterns_by_threshold, ...): the exception raised ("" if none) and the
\* instance (None when __init__ raised). The names tried have none of the
\* characters Module.__init__ rejects.
Construct(kind, name, raw, stop_on_flag, audit, default_flagged_response) ==
    LET err == IF ~raw.is_dict \/ raw.entries = << >> THEN "ValueError"
               ELSE ValidateEntries(kind, raw.entries, 1)
    IN IF err # ""
       THEN [raised |-> err, instance |-> None]
       ELSE [raised |-> "",
             instance |-> Some(NewFilter(kind, name, ToMap(raw.entries), stop_on_flag,
                                         audit, default_flagged_response))]

\* ----------------------------------------------------------------- Pipe base
\* The audit record Pipe.__init__ and Pipe.reset build.
FreshPipeLog(p) ==
    [name |-> p.name, id |-> p.id, pipe_type |-> p.pipe_type, log |-> EmptyDict,
     status |-> "noexec"]

ResetSeq(ms) == [i \in DOMAIN ms |-> ModuleReset(ms[i])]

PipeResetPipeOnly(p, ms) ==
    [p |-> [p EXCEPT !.audit_log = FreshPipeLog(p), !.flag = FALSE, !.exec_time = None],
     ms |-> ms]
\* Pipe.reset: the pipe's own transient state, then every module's.
PipeReset(p, ms) ==
    [p |-> [p EXCEPT !.audit_log = FreshPipeLog(p), !.flag = FALSE, !.exec_time = None],
     ms |-> ResetSeq(ms)]

PipeLogAudit(p, value, level) ==
    IF ~p.audit
    THEN [p EXCEPT !.audit_log = [@ EXCEPT !.status = "disabled"]]
    ELSE IF level = "log"
         THEN [p EXCEPT !.audit_log = [@ EXCEPT !.log = Merge(@, value)]]
         ELSE [p EXCEPT !.audit_log = Merge(@, value)]

PipeSetFlagManualRecomputes(p, ms, flag) ==
    IF p.flagging_strategy = "manual" /\ flag # None
    THEN [p EXCEPT !.flag = flag[1]]
    ELSE IF p.flagging_strategy \in {"any", "manual"}
    THEN [p EXCEPT !.flag = \E i \in DOMAIN ms : ms[i].flag]
    ELSE IF p.flagging_strategy = "all"
    THEN [p EXCEPT !.flag = \A i \in DOMAIN ms : ms[i].flag]
    ELSE p
PipeSetFlagSwapped(p, ms, flag) ==
    IF p.flagging_strategy = "manual" /\ flag # None
    THEN [p EXCEPT !.flag = flag[1]]
    ELSE IF p.flagging_strategy = "any"
    THEN [p EXCEPT !.flag = \A i \in DOMAIN ms : ms[i].flag]
    ELSE IF p.flagging_strategy = "all"
    THEN [p EXCEPT !.flag = \E i \in DOMAIN ms : ms[i].flag]
    ELSE p
\* Pipe.set_flag(flag=None); flag is None or Some(a bool).
PipeSetFlag(p, ms, flag) ==
    IF p.flagging_strategy = "manual" /\ flag # None
    THEN [p EXCEPT !.flag = flag[1]]
    ELSE IF p.flagging_strategy = "any"
    THEN [p EXCEPT !.flag = \E i \in DOMAIN ms : ms[i].flag]
    ELSE IF p.flagging_strategy = "all"
    THEN [p EXCEPT !.flag = \A i \in DOMAIN ms : ms[i].flag]
    ELSE p

\* Pipe.get_audit_logs
PipeGetAuditLogs(p, ms) ==
    IF ~p.audit THEN p.audit_log
    ELSE Merge(p.audit_log, [modules |-> [i \in DOMAIN ms |-> ms[i].audit_log]])

\* Pipe.flagged_response: the flagged modules' responses, to be joined by "\n"
\* (an unflagged pipe answers the empty string, the join of nothing).
PipeFlaggedResponse(p, ms) ==
    IF p.flag
    THEN LET RECURSIVE Parts(_)
             Parts(i) == IF i > Len(ms) THEN << >>
                         ELSE IF ms[i].flag
                              THEN << FlaggedResponse(ms[i]) >> \o Parts(i + 1)
                              ELSE Parts(i + 1)
         IN Parts(1)
    ELSE << >>

\* Pipe.initialize_modules: ids 1..N in declaration order, each module reset.
InitializeModules(ms) == [i \in DOMAIN ms |-> ModuleReset([ms[i] EXCEPT !.id = Some(i)])]

\* The loop of Pipe.initialize_modules from position i on, names being the
\* names seen: it raises ValueError at the first module whose name an earlier
\* module has, leaving the modules before it with their ids and reset.
RECURSIVE InitializeLoopFromZero(_, _, _)
InitializeLoopFromZero(ms, i, names) ==
    IF i > Len(ms) THEN [ms |-> ms, raised |-> ""]
    ELSE IF ms[i].name \in names THEN [ms |-> ms, raised |-> "ValueError"]
    ELSE InitializeLoopFromZero([ms EXCEPT ![i] = ModuleReset([ms[i] EXCEPT !.id = Some(i - 1)])],
                                i + 1, names \cup {ms[i].name})
RECURSIVE InitializeLoop(_, _, _)
InitializeLoop(ms, i, names) ==
    IF i > Len(ms) THEN [ms |-> ms, raised |-> ""]
    ELSE IF ms[i].name \in names THEN [ms |-> ms, raised |-> "ValueError"]
    ELSE InitializeLoop([ms EXCEPT ![i] = ModuleReset([ms[i] EXCEPT !.id = Some(i)])],
                        i + 1, names \cup {ms[i].name})

\* The tail of Pipe._run once run has returned result, under _time_logger.
PipeRunReturned(p, query, result, start, end) ==
    LET p1 == PipeLogAudit(p, [input |-> query, output |-> result], "log")
        p2 == PipeLogAudit(p1, [status |-> "success", flag |-> p1.flag], "main")
        t == ElapsedMs(start, end)
    IN PipeLogAudit([p2 EXCEPT !.exec_time = Some(t)], [execution_time |-> t], "main")

\* Pipe.__init__ for a thread pipe.
NewThreadPipe(name, audit, flagging_strategy, stop_on_flag, max_workers) ==
    LET p == [name |-> name, id |-> None, pipe_type |-> "thread", audit |-> audit,
              flagging_strategy |-> flagging_strategy, stop_on_flag |-> stop_on_flag,
              max_workers |-> max_workers, flag |-> FALSE, exec_time |-> None]
    IN Merge(p, [audit_log |-> FreshPipeLog(p)])

\* ThreadPipe.run: what the worker of the i-th module is given, and what run
\* returns once every future is done or cancelled: the query in both cases.
ThreadPipeArgument(query, ms, i) == query
ThreadPipeResultOfLast(query, ms) ==
    LET wrote == {i \in DOMAIN ms : "output" \in DOMAIN ms[i].audit_log.log}
    IN IF wrote = {} THEN query
       ELSE ms[CHOOSE i \in wrote : \A j \in wrote : j <= i].audit_log.log.output
ThreadPipeResult(query, ms) == query

\* Pipe.__init__ for a sequential pipe.
NewSequentialPipe(name, audit, flagging_strategy, stop_on_flag) ==
    LET p == [name |-> name, id |-> None, pipe_type |-> "sequential", audit |-> audit,
              flagging_strategy |-> flagging_strategy, stop_on_flag |-> stop_on_flag,
              flag |-> FALSE, exec_time |-> None]
    IN Merge(p, [audit_log |-> FreshPipeLog(p)])

\* SequentialPipe.run from the i-th module on, value being the current value
\* and seen the calls made so far: each module is called on the value the one
\* before it returned, and with stop_on_flag the loop stops at a module that
\* flags.
RECURSIVE SequentialRunSameInput(_, _, _, _, _)
SequentialNextSameInput(p, ms, i, value, seen, c) ==
    IF p.stop_on_flag /\ c.m.flag
    THEN [ms |-> [ms EXCEPT ![i] = c.m], result |-> c.result,
          seen |-> Append(seen, [module |-> i, input |-> value, output |-> c.result])]
    ELSE SequentialRunSameInput(p, [ms EXCEPT ![i] = c.m], i + 1, value,
                                Append(seen, [module |-> i, input |-> value,
                                              output |-> c.result]))
SequentialRunSameInput(p, ms, i, value, seen) ==
    IF i > Len(ms) THEN [ms |-> ms, result |-> value, seen |-> seen]
    ELSE SequentialNextSameInput(p, ms, i, value, seen, ModuleCall(ms[i], value, 0, 0))
RECURSIVE SequentialRun(_, _, _, _, _)
\* The rest of the loop once the i-th module, called on value, returned c.
SequentialAfter(p, ms, i, value, seen, c) ==
    IF p.stop_on_flag /\ c.m.flag
    THEN [ms |-> [ms EXCEPT ![i] = c.m], result |-> c.result,
          seen |-> Append(seen, [module |-> i, input |-> value, output |-> c.result])]
    ELSE SequentialRun(p, [ms EXCEPT ![i] = c.m], i + 1, c.result,
                       Append(seen, [module |-> i, input |-> value, output |-> c.result]))
SequentialRun(p, ms, i, value, seen) ==
    IF i > Len(ms) THEN [ms |-> ms, result |-> value, seen |-> seen]
    ELSE SequentialAfter(p, ms, i, value, seen, ModuleCall(ms[i], value, 0, 0))

\* The tail of Pipe._run for a sequential pipe once run has returned out: the
\* flag is set from the modules' flags and the run is logged.
SequentialReturned(p, out, query, start, end) ==
    [p |-> PipeRunReturned(PipeSetFlag(p, out.ms, None), query, out.result, start, end),
     ms |-> out.ms, result |-> out.result, seen |-> out.seen]

\* pipe(query) for a sequential pipe, Pipe._run: reset, run on a copy, set the
\* flag from the modules' flags, log.
SequentialCall(p, ms, query, start, end) ==
    SequentialReturned(PipeReset(p, ms).p,
                       SequentialRun(PipeReset(p, ms).p, ResetSeq(ms), 1, query, << >>),
                       query, start, end)

\* Pipe._force_set_flag
PipeForceSetFlag(p, flag) == [p EXCEPT !.flag = flag]

\* The tail of Pipe._run once run has raised, under _time_logger.
PipeRunRaisedAsSuccess(p, start, end) ==
    LET p1 == PipeLogAudit(p, [status |-> "success", flag |-> p.flag], "main")
        t == ElapsedMs(start, end)
    IN PipeLogAudit([p1 EXCEPT !.exec_time = Some(t)], [execution_time |-> t], "main")
PipeRunRaisedFlags(p, start, end) ==
    LET p0 == [p EXCEPT !.flag = TRUE]
        p1 == PipeLogAudit(p0, [message |-> "error", traceback |-> "traceback"], "log")
        p2 == PipeLogAudit(p1, [status |-> "error", flag |-> p1.flag], "main")
        t == ElapsedMs(start, end)
    IN PipeLogAudit([p2 EXCEPT !.exec_time = Some(t)], [execution_time |-> t], "main")
PipeRunRaised(p, start, end) ==
    LET p1 == PipeLogAudit(p, [message |-> "error", traceback |-> "traceback"], "log")
        p2 == PipeLogAudit(p1, [status |-> "error", flag |-> p1.flag], "main")
        t == ElapsedMs(start, end)
    IN PipeLogAudit([p2 EXCEPT !.exec_time = Some(t)], [execution_time |-> t], "main")

\* A pipe whose run is written by the user of the library (run is abstract):
\* it has no modules and sets its flag itself (flagging_strategy manual).
\* behaviour says what its run does with a query.
Behaviours == {"pass", "rewrite", "flag", "raise"}
PipeTags == << "x", "y", "z", "w" >>
NewCustomPipe(name, id, audit, behaviour) ==
    LET p == [name |-> name, id |-> Some(id), pipe_type |-> "custom", audit |-> audit,
              flagging_strategy |-> "manual", behaviour |-> behaviour,
              flag |-> FALSE, exec_time |-> None]
    IN Merge(p, [audit_log |-> FreshPipeLog(p)])

\* What the run of a custom pipe does on the copy of the query: the text it
\* returns (or had built when it raised), the flag it forces, whether it raises.
Rewritten(p, q) == [q EXCEPT !.val = Append(@, PipeTags[p.id[1]])]
PipeRun(p, q) ==
    CASE p.behaviour = "pass"    -> [raised |-> FALSE, result |-> q, force |-> None]
      [] p.behaviour = "rewrite" -> [raised |-> FALSE, result |-> Rewritten(p, q), force |-> None]
      [] p.behaviour = "flag"    -> [raised |-> FALSE, result |-> q, force |-> Some(TRUE)]
      [] p.behaviour = "raise"   -> [raised |-> TRUE, result |-> Rewritten(p, q), force |-> None]

\* pipe(query), Pipe._run: reset, run on a copy, log; an exception of run is
\* caught and the query given is returned.
PipeCallDropsResult(p, query, start, end) ==
    LET p0 == PipeReset(p, << >>).p
        out == PipeRun(p0, query)
        p1 == IF out.force = None THEN p0 ELSE PipeForceSetFlag(p0, out.force[1])
    IN IF out.raised
       THEN [p |-> PipeRunRaised(p1, start, end), result |-> query, raised |-> TRUE]
       ELSE [p |-> PipeRunReturned(p1, query, out.result, start, end),
             result |-> query, raised |-> FALSE]
PipeCall(p, query, start, end) ==
    LET p0 == PipeReset(p, << >>).p
        out == PipeRun(p0, query)
        p1 == IF out.force = None THEN p0 ELSE PipeForceSetFlag(p0, out.force[1])
    IN IF out.raised
       THEN [p |-> PipeRunRaised(p1, start, end), result |-> query, raised |-> TRUE]
       ELSE [p |-> PipeRunReturned(p1, query, out.result, start, end),
             result |-> out.result, raised |-> FALSE]

\* The names of the modules of a pipe, all different (initialize_modules).
ModuleNames == << "Filtering Module", "Filtering Module 2", "Filtering Module 3" >>

\* The i-th module of a pipe built as the sample executor builds its keyword
\* filters: one bucket of one keyword, audited; the keywords alternate.
SampleModule(i) ==
    NewFilter("KeywordFilter", ModuleNames[i],
              [t \in {1} |-> << IF i % 2 = 1 THEN KwA ELSE KwB >>],
              TRUE, TRUE, "Query flagged by policy.")

\* The contents sent to the gateway: "", "a", "b", "ab", and one that is no str.
Contents == {Str(<< >>), Str(KwA), Str(KwB), Str(<< "a", "b" >>), NotAStr}

\* The contents of the concurrent requests: "", "a", "b".
GatewayContents == {Str(<< >>), Str(KwA), Str(KwB)}

Requests == {"A", "B"}
\* Where a handler is once the pipe run has returned.
AfterRun == {"check", "logs", "respond", "done"}

\* ------------------------------------------------------ JSON and audit rows
\* A JSON value handed to _insert_audit or returned by _select_audits: t is its
\* type; n the number (or 0/1 of a boolean); s the string, or the payload of an
\* object; id the "id" member of an object (None when it has none).
JNull == [t |-> "null", n |-> 0, s |-> "", id |-> None]
JBool(b) == [t |-> "bool", n |-> IF b THEN 1 ELSE 0, s |-> "", id |-> None]
JNum(n) == [t |-> "num", n |-> n, s |-> "", id |-> None]
JStr(s) == [t |-> "str", n |-> 0, s |-> s, id |-> None]
JObj(id, tag) == [t |-> "obj", n |-> 0, s |-> tag, id |-> id]
\* {"raw": text}, what a row whose content is no JSON text is read as.
RawObj(text) == [t |-> "raw", n |-> 0, s |-> text, id |-> None]

\* json.dumps of a value that is no object.
DumpsScalar(v) ==
    CASE v.t = "null" -> "null"
      [] v.t = "bool" -> (IF v.n = 1 THEN "true" ELSE "false")
      [] v.t = "num"  -> ToString(v.n)
      [] v.t = "str"  -> "\"" \o v.s \o "\""
\* json.dumps(obj, separators=(",", ":"))
Dumps(v) ==
    IF v.t = "obj"
    THEN "{" \o (IF v.id = None THEN "" ELSE "\"id\":" \o DumpsScalar(v.id[1]) \o ",")
             \o "\"tag\":\"" \o v.s \o "\"}"
    ELSE DumpsScalar(v)

\* _to_json_str: a dict is dumped, a str is stored as it is, anything else is
\* dumped.
ToJsonStr(v) ==
    IF v.t = "obj" THEN Dumps(v)
    ELSE IF v.t = "str" THEN v.s
    ELSE Dumps(v)

\* The ids of objects, the payloads and the strings of the model.
IdValues == {JNull, JNum(1), JNum(2), JStr("a")}
JsonScalars == {JNull, JBool(TRUE), JBool(FALSE), JNum(1), JNum(2),
                JStr("hello"), JStr("1"), JStr("a")}
JsonObjects == {JObj(id, tag) : id \in {None} \cup {Some(v) : v \in IdValues},
                                tag \in {"p", "q", "noexec", "success", "error", "disabled"}}
JsonUniverse == JsonScalars \cup JsonObjects
\* The JSON text of every value, and the value of every JSON text.
JsonText == [v \in JsonUniverse |-> Dumps(v)]
JsonValue == [text \in {JsonText[v] : v \in JsonUniverse} |->
                CHOOSE v \in JsonUniverse : JsonText[v] = text]

\* json.loads(text): the value whose JSON text it is, None when it is not JSON
\* text (json.loads raises).
Loads(text) == IF text \in DOMAIN JsonValue THEN Some(JsonValue[text]) ELSE None

\* A row read back: json.loads(content), {"raw": content} when that raises.
ReadContent(text) == IF Loads(text) = None THEN RawObj(text) ELSE Loads(text)[1]

\* The sort key of _select_audits: (d.get("id") is None, d.get("id")) for a
\* dict, (True, None) for anything else.
HasId(d) == d.t = "obj" /\ d.id # None /\ d.id[1].t # "null"
\* Whether comparing the keys of two items raises TypeError (an int id against
\* a str id).
Incomparable(a, b) == HasId(a) /\ HasId(b) /\ a.id[1].t # b.id[1].t
\* The order of the strings of the model.
StrRank(x) == CASE x = "" -> 0 [] x = "1" -> 1 [] x = "a" -> 2 [] x = "hello" -> 3 [] OTHER -> 4
\* key(a) < key(b), for comparable keys.
KeyLess(a, b) ==
    IF HasId(a) /\ HasId(b)
    THEN IF a.id[1].t = "num" THEN a.id[1].n < b.id[1].n
         ELSE StrRank(a.id[1].s) < StrRank(b.id[1].s)
    ELSE HasId(a) /\ ~HasId(b)

\* list.sort(key=...): stable.
RECURSIVE InsertByKey(_, _)
InsertByKey(sorted, x) ==
    IF sorted = << >> THEN << x >>
    ELSE IF KeyLess(x, sorted[Len(sorted)])
         THEN Append(InsertByKey(SubSeq(sorted, 1, Len(sorted) - 1), x), sorted[Len(sorted)])
         ELSE Append(sorted, x)
RECURSIVE SortByKey(_)
SortByKey(items) ==
    IF items = << >> THEN << >>
    ELSE InsertByKey(SortByKey(SubSeq(items, 1, Len(items) - 1)), items[Len(items)])

\* ---------------------------------------------------------- the audit store
\* _write_disabled
WriteDisabledNever(w) == FALSE
WriteDisabled(w) == ~w

\* The delays of the retry loop of _insert_audit, in milliseconds.
Delays == << 50, 100, 200, 400, 800 >>

\* str(uuid.uuid4()): an identifier no row has.
Uuids(rows) == {rows[j].uuid : j \in DOMAIN rows}
NewUuid(rows) == CHOOSE u \in 1..(Len(rows) + 1) : u \notin Uuids(rows)

\* The retry loop for one row: attempt i (from 0) sleeps its delay first; the
\* INSERT raises "database is locked" while locks are left, then ends as
\* `then` says ("ok", "integrity" for an IntegrityError, or "error" for any
\* other SQLAlchemyError).
RECURSIVE TryRowNoLimit(_, _, _, _, _)
TryRowNoLimit(dia, i, locks, then, slept) ==
    LET slept2 == IF i > 0 /\ i <= Len(Delays) THEN Append(slept, Delays[i]) ELSE slept
    IN IF locks > 0
       THEN IF dia = "sqlite"
            THEN TryRowNoLimit(dia, i + 1, locks - 1, then, slept2)
            ELSE [ok |-> FALSE, attempts |-> i + 1, slept |-> slept2, error |-> "locked"]
       ELSE [ok |-> then = "ok", attempts |-> i + 1, slept |-> slept2,
             error |-> IF then = "ok" THEN ""
                       ELSE IF then = "integrity" THEN "integrity" ELSE "other"]
RECURSIVE TryRow(_, _, _, _, _)
TryRow(dia, i, locks, then, slept) ==
    LET slept2 == IF i > 0 THEN Append(slept, Delays[i]) ELSE slept
    IN IF locks > 0
       THEN IF dia = "sqlite" /\ i < Len(Delays)
            THEN TryRow(dia, i + 1, locks - 1, then, slept2)
            ELSE [ok |-> FALSE, attempts |-> i + 1, slept |-> slept2, error |-> "locked"]
       ELSE [ok |-> then = "ok", attempts |-> i + 1, slept |-> slept2,
             error |-> IF then = "ok" THEN ""
                       ELSE IF then = "integrity" THEN "integrity" ELSE "other"]

\* The body of the transaction: one row per entry, each with a new uuid; the
\* oracle says which row meets errors (the others succeed at once). A uuid
\* that a row already has violates the primary key (IntegrityError).
RECURSIVE InsertRows(_, _, _, _, _, _, _)
InsertRows(dia, rows, entries, k, mid, oracle, trace) ==
    IF k > Len(entries) THEN [ok |-> TRUE, rows |-> rows, trace |-> trace]
    ELSE LET u == NewUuid(rows)
             t == IF u \in Uuids(rows)
                  THEN [ok |-> FALSE, attempts |-> 1, slept |-> << >>, error |-> "integrity"]
                  ELSE IF oracle.at = k
                       THEN TryRow(dia, 0, oracle.locks, oracle.then, << >>)
                       ELSE TryRow(dia, 0, 0, "ok", << >>)
             row == [uuid |-> u, message_id |-> mid, content |-> ToJsonStr(entries[k])]
         IN IF t.ok
            THEN InsertRows(dia, Append(rows, row), entries, k + 1, mid, oracle,
                            Append(trace, t))
            ELSE [ok |-> FALSE, rows |-> rows, trace |-> Append(trace, t)]

\* What _insert_audit returns for a row: the row re-selected, its content read.
ResultOf(row) == [uuid |-> row.uuid, message_id |-> row.message_id,
                  content |-> ReadContent(row.content)]

\* `with self.engine.begin()`: an exception inside the block rolls the
\* transaction back, so the table is as it was before the call.
KeepPartial(before, rows) == rows
RolledBack(before, rows) == before

\* _insert_audit(message_id, content); content is [is_list, items] (a single
\* entry is the one item). The transaction commits when every row went in and
\* is rolled back when an insert raises.
InsertAudit(w, dia, st, mid, content, oracle) ==
    IF WriteDisabled(w)
    THEN [store |-> st, raised |-> "", results |-> << >>, trace |-> << >>, ran |-> FALSE]
    ELSE LET r == InsertRows(dia, st, content.items, 1, mid, oracle, << >>)
             added == SubSeq(r.rows, Len(st) + 1, Len(r.rows))
         IN IF r.ok
            THEN [store |-> r.rows, raised |-> "",
                  results |-> [j \in DOMAIN added |-> ResultOf(added[j])],
                  trace |-> r.trace, ran |-> TRUE]
            ELSE [store |-> RolledBack(st, r.rows),
                  raised |-> IF r.trace[Len(r.trace)].error = "integrity"
                             THEN "IntegrityError" ELSE "RuntimeError",
                  results |-> << >>, trace |-> r.trace, ran |-> TRUE]

\* _select_audits(message_id): the contents of the rows of message_id, read and
\* sorted; the sort raises TypeError when two ids do not compare.
SelectAudits(w, st, mid) ==
    IF WriteDisabled(w) THEN [raised |-> "", items |-> << >>, ran |-> FALSE]
    ELSE LET rows == SelectSeq(st, LAMBDA row : row.message_id = mid)
             items == [j \in DOMAIN rows |-> ReadContent(rows[j].content)]
         IN IF \E a, b \in DOMAIN items : Incomparable(items[a], items[b])
            THEN [raised |-> "TypeError", items |-> << >>, ran |-> TRUE]
            ELSE [raised |-> "", items |-> SortByKey(items), ran |-> TRUE]

\* _delete_audits(message_id): every row of message_id goes; the count.
DeleteAuditsFirstOnly(w, st, mid) ==
    IF WriteDisabled(w) THEN [store |-> st, deleted |-> 0, ran |-> FALSE]
    ELSE LET hit == {j \in DOMAIN st : st[j].message_id = mid}
             first == IF hit = {} THEN 0 ELSE CHOOSE j \in hit : \A l \in hit : j <= l
         IN [store |-> [j \in 1..(Len(st) - (IF hit = {} THEN 0 ELSE 1)) |->
                           IF j < first THEN st[j] ELSE st[j + 1]],
             deleted |-> IF hit = {} THEN 0 ELSE 1, ran |-> TRUE]
DeleteAudits(w, st, mid) ==
    IF WriteDisabled(w) THEN [store |-> st, deleted |-> 0, ran |-> FALSE]
    ELSE [store |-> SelectSeq(st, LAMBDA row : row.message_id # mid),
          deleted |-> Len(SelectSeq(st, LAMBDA row : row.message_id = mid)),
          ran |-> TRUE]

\* ------------------------------------------------------------------- state
VARIABLES
    mod,        \* a filter instance used on its own
    modQuery,   \* the query of its latest invocation (None before the first)
    modRet,     \* what that invocation returned (None before the first)
    modRaised,  \* whether run raised in that invocation
    modPrev     \* the flag the module had when that invocation began

VARIABLES
    pipe,       \* the executor's input pipe, shared by every request
    mods,       \* its modules, shared by every request
    raiseOnFlag,\* the executor's raise_on_flag
    by,         \* which request's run produced the pipe's and each module's audit
                \* record ("init", "reset": none, the record is as constructed or reset)
    pc,         \* where each request's handler is
    content,    \* the content each request carries
    fut,        \* per request, the future of each module of its pipe run
    raised,     \* whether the executor raised FlaggedInputError for the request
    logs,       \* the audit_logs the handler read, and who wrote them
    resp        \* the response sent (None until then)

VARIABLES
    exPipes,    \* an executor's pipes: [input |-> pipes, output |-> pipes]
    exRaise,    \* its raise_on_flag
    exPc,       \* "idle", "run" (inside execute_inputs / execute_outputs),
                \* "returned" or "raised"
    exChain,    \* "input" or "output": the pipes the latest call runs
    exIn,       \* the text the latest call was given (None before the first)
    exText,     \* the text the next pipe is given; at the end, the text returned
    exIdx,      \* the position of the next pipe to run
    exSeen,     \* per pipe run of the latest call: its input, its output,
                \* whether its run raised
    exError     \* the exception raised by the latest call (None if none)

VARIABLES
    writeLogs,  \* SECURAG_SERVER_WRITE_LOGS
    dialect,    \* the dialect of the engine
    store,      \* the committed rows of the audit table, in stored order
    ins,        \* the _insert_audit call in progress or the latest one
    hreq,       \* the request the gateway is handling or handled last
    hresp,      \* its response (None until answered)
    hprev,      \* the request handled before it, when that was a delete
                \* answered 200: its message_id and its count (else None)
    dbOps       \* the statements executed on the engine so far

VARIABLES
    ctor,       \* the latest constructor call of a filter: its arguments and the
                \* exception it raised, "" if none (None before the first)
    initd       \* the exception the latest initialize_modules raised, "" if none
                \* (None before the first call)

VARIABLES
    convs,      \* the Conversation table of the application server: the ids
    msgs,       \* its Message table, in the order the rows were created
    turn        \* per request of the application server: where its view is,
                \* its local variables, the gateway calls it made, its response

VARIABLES
    seqSeen,    \* per module call of the latest run of a sequential pipe, in call
                \* order: the module's position, what it was given, what it returned
    seqRet,     \* what the latest call of the sequential pipe returned (None
                \* before the first)
    flagHist    \* since the latest reset of a pipe: whether set_flag or
                \* _force_set_flag was called, and the last boolean passed to
                \* them (None if none)

VARIABLES
    stamps,     \* created_at and updated_at of each conversation, in microseconds
    pgLimit,    \* the limit a client pages with
    mPager,     \* a client paging the messages of conversation 1: the cursor it
                \* holds, the pages it got, whether it is done, the last status
    cPager      \* a client paging the conversations, likewise

modVars == << mod, modQuery, modRet, modRaised, modPrev >>
pageVars == << stamps, pgLimit, mPager, cPager >>
seqVars == << seqSeen, seqRet, flagHist >>
cfgVars == << ctor, initd >>
convVars == << convs, msgs, turn >>
pipeVars == << pipe, mods, raiseOnFlag, by, pc, content, fut, raised, logs, resp >>
exVars == << exPipes, exRaise, exPc, exChain, exIn, exText, exIdx, exSeen, exError >>
dbVars == << writeLogs, dialect, store, ins, hreq, hresp, hprev, dbOps >>
vars == << mod, modQuery, modRet, modRaised, modPrev,
           pipe, mods, raiseOnFlag, by, pc, content, fut, raised, logs, resp,
           exPipes, exRaise, exPc, exChain, exIn, exText, exIdx, exSeen, exError,
           writeLogs, dialect, store, ins, hreq, hresp, hprev, dbOps,
           ctor, initd, convs, msgs, turn, seqSeen, seqRet, flagHist,
           stamps, pgLimit, mPager, cPager >>

\* The pipe variables, for a specification that does not use them.
NoPipe ==
    /\ pipe = NewThreadPipe("Filtering Pipe", FALSE, "any", FALSE, 1)
    /\ mods = << >>
    /\ raiseOnFlag = FALSE
    /\ by = [pipe |-> "init", mods |-> << >>]
    /\ pc = [r \in Requests |-> "idle"]
    /\ content = [r \in Requests |-> None]
    /\ fut = [r \in Requests |-> << >>]
    /\ raised = [r \in Requests |-> FALSE]
    /\ logs = [r \in Requests |-> None]
    /\ resp = [r \in Requests |-> None]

\* The executor variables, for a specification that does not use them.
NoExecutor ==
    /\ exPipes = [input |-> << >>, output |-> << >>]
    /\ exRaise = FALSE
    /\ exPc = "idle"
    /\ exChain = "input"
    /\ exIn = None
    /\ exText = None
    /\ exIdx = 1
    /\ exSeen = << >>
    /\ exError = None

\* No _insert_audit call has been made.
NoInsert == [called |-> FALSE]

\* The audit store variables, for a specification that does not use them.
NoStore ==
    /\ writeLogs = FALSE
    /\ dialect = "sqlite"
    /\ store = << >>
    /\ ins = NoInsert
    /\ hreq = None
    /\ hresp = None
    /\ hprev = None
    /\ dbOps = {}

\* A client that has not asked for a page.
NewPager == [cursor |-> None, pages |-> << >>, done |-> FALSE, status |-> None]
\* The paging variables, for a specification that does not use them.
NoPaging ==
    /\ stamps = << >>
    /\ pgLimit = 1
    /\ mPager = NewPager
    /\ cPager = NewPager

\* The sequential pipe variables, for a specification that does not use them.
NoFlagCall == [called |-> FALSE, last |-> None]
NoSequential ==
    /\ seqSeen = << >>
    /\ seqRet = None
    /\ flagHist = NoFlagCall

\* The construction variables, for a specification that does not use them.
NoConfig ==
    /\ ctor = None
    /\ initd = None

\* A request of the application server that has not arrived.
IdleTurn ==
    [pc |-> "idle", view |-> "", conversation |-> None, last_order |-> None,
     user_msg |-> None, input_t |-> None, input_flagged |-> None, ai_raw |-> None,
     ai_out |-> None, calls |-> << >>, reply_status |-> None, status |-> None]
\* The application server variables, for a specification that does not use them.
NoConversation ==
    /\ convs = {}
    /\ msgs = << >>
    /\ turn = [r \in {"A", "B"} |-> IdleTurn]

\* ------------------------------------------------------- a module on its own
ModuleInit ==
    /\ NoConfig
    /\ NoConversation
    /\ NoSequential
    /\ NoPaging
    /\ \E kind \in {"KeywordFilter", "RegexFilter"} :
       \E cfg \in ThresholdMaps(kind) :
       \E stop \in BOOLEAN, audit \in BOOLEAN, dfr \in DefaultResponses :
            mod = NewFilter(kind, "Filtering Module", cfg, stop, audit, dfr)
    /\ modQuery = None
    /\ modRet = None
    /\ modRaised = FALSE
    /\ modPrev = FALSE
    /\ NoPipe
    /\ NoExecutor
    /\ NoStore

\* module(query)
Invoke ==
    \E q \in Queries, start \in Ticks, end \in Ticks :
        LET r == ModuleCall(mod, q, start, end)
        IN /\ start <= end
           /\ mod' = r.m
           /\ modQuery' = Some(q)
           /\ modRet' = Some(r.result)
           /\ modRaised' = r.raised
           /\ modPrev' = mod.flag
           /\ UNCHANGED << pipeVars, exVars, dbVars, cfgVars, convVars, seqVars, pageVars >>

ModuleNext == Invoke
SpecModule == ModuleInit /\ [][ModuleNext]_vars

\* --------------------------------------------- the gateway and its one pipe
\* The module variables, for a specification that does not use them.
NoModule ==
    /\ mod = NewFilter("KeywordFilter", "Filtering Module", [t \in {1} |-> << KwA >>],
                       TRUE, FALSE, "Query flagged by policy.")
    /\ modQuery = None
    /\ modRet = None
    /\ modRaised = FALSE
    /\ modPrev = FALSE

\* create_executor() and SecuRAGServer.__init__: one thread pipe over the first
\* n sample modules, and raise_on_flag.
ExecutorInit(n, audit, strategy, stop, workers, raise) ==
    /\ pipe = NewThreadPipe("Filtering Pipe", audit, strategy, stop, workers)
    /\ mods = InitializeModules([i \in 1..n |-> SampleModule(i)])
    /\ raiseOnFlag = raise
    /\ by = [pipe |-> "init", mods |-> [i \in 1..n |-> "init"]]
    /\ pc = [r \in Requests |-> "idle"]
    /\ content = [r \in Requests |-> None]
    /\ fut = [r \in Requests |-> [i \in 1..n |-> "pending"]]
    /\ raised = [r \in Requests |-> FALSE]
    /\ logs = [r \in Requests |-> None]
    /\ resp = [r \in Requests |-> None]

\* transform_input up to the call of execute_inputs: a request with content.
Receive(r, Q) ==
    /\ pc[r] = "idle"
    /\ \E q \in Q : content' = [content EXCEPT ![r] = Some(q)]
    /\ pc' = [pc EXCEPT ![r] = "reset"]
    /\ raised' = [raised EXCEPT ![r] = FALSE]
    /\ logs' = [logs EXCEPT ![r] = None]
    /\ resp' = [resp EXCEPT ![r] = None]
    /\ UNCHANGED << modVars, exVars, dbVars, cfgVars, convVars, seqVars, pageVars >>
    /\ UNCHANGED << pipe, mods, raiseOnFlag, by, fut >>

\* The thread that answered a request takes the next one.
ReceiveNext(r) ==
    /\ pc[r] = "done"
    /\ \E q \in Contents : content' = [content EXCEPT ![r] = Some(q)]
    /\ pc' = [pc EXCEPT ![r] = "reset"]
    /\ raised' = [raised EXCEPT ![r] = FALSE]
    /\ logs' = [logs EXCEPT ![r] = None]
    /\ resp' = [resp EXCEPT ![r] = None]
    /\ UNCHANGED << modVars, exVars, dbVars, cfgVars, convVars, seqVars, pageVars >>
    /\ UNCHANGED << pipe, mods, raiseOnFlag, by, fut >>

\* Pipe._run: self.reset(), then run() submits every module to the pool.
BeginRun(r) ==
    /\ pc[r] = "reset"
    /\ LET z == PipeReset(pipe, mods)
       IN /\ pipe' = z.p
          /\ mods' = z.ms
          /\ by' = [pipe |-> "reset", mods |-> [i \in DOMAIN z.ms |-> "reset"]]
    /\ fut' = [fut EXCEPT ![r] = [i \in DOMAIN mods |-> "pending"]]
    /\ pc' = [pc EXCEPT ![r] = "run"]
    /\ UNCHANGED << modVars, exVars, dbVars, cfgVars, convVars, seqVars, pageVars >>
    /\ UNCHANGED << raiseOnFlag, content, raised, logs, resp >>

\* A worker of the pool takes a module that has not started.
StartModule(r) ==
    /\ pc[r] = "run"
    /\ Cardinality({j \in DOMAIN fut[r] : fut[r][j] = "running"}) < pipe.max_workers
    /\ \E i \in DOMAIN fut[r] :
        /\ fut[r][i] = "pending"
        /\ fut' = [fut EXCEPT ![r][i] = "running"]
    /\ UNCHANGED << modVars, exVars, dbVars, cfgVars, convVars, seqVars, pageVars >>
    /\ UNCHANGED << pipe, mods, raiseOnFlag, by, pc, content, raised, logs, resp >>

\* The worker's call module(query) completes; with stop_on_flag a flagged
\* result cancels every module that has not started.
FinishModule(r) ==
    /\ pc[r] = "run"
    /\ \E i \in DOMAIN fut[r] :
        /\ fut[r][i] = "running"
        /\ LET c == ModuleCall(mods[i], ThreadPipeArgument(content[r][1], mods, i), 0, 0)
               cancel == pipe.stop_on_flag /\ c.m.flag
           IN /\ mods' = [mods EXCEPT ![i] = c.m]
              /\ fut' = [fut EXCEPT ![r] =
                            [j \in DOMAIN fut[r] |->
                                IF j = i THEN "done"
                                ELSE IF cancel /\ fut[r][j] = "pending" THEN "cancelled"
                                ELSE fut[r][j]]]
        /\ by' = [by EXCEPT !.mods[i] = r]
    /\ UNCHANGED << modVars, exVars, dbVars, cfgVars, convVars, seqVars, pageVars >>
    /\ UNCHANGED << pipe, raiseOnFlag, pc, content, raised, logs, resp >>

\* Every future is done or cancelled: run aggregates the flag and returns the
\* input unchanged, and Pipe._run logs the run.
EndRun(r) ==
    /\ pc[r] = "run"
    /\ \A i \in DOMAIN fut[r] : fut[r][i] \in {"done", "cancelled"}
    /\ pipe' = PipeRunReturned(PipeSetFlag(pipe, mods, None), content[r][1],
                               ThreadPipeResult(content[r][1], mods), 0, 0)
    /\ by' = [by EXCEPT !.pipe = r]
    /\ pc' = [pc EXCEPT ![r] = "check"]
    /\ UNCHANGED << modVars, exVars, dbVars, cfgVars, convVars, seqVars, pageVars >>
    /\ UNCHANGED << mods, raiseOnFlag, content, fut, raised, logs, resp >>

\* execute_inputs after the pipe: raise FlaggedInputError when raise_on_flag
\* and the pipe is flagged, else return the text.
ExecutorCheck(r) ==
    /\ pc[r] = "check"
    /\ raised' = [raised EXCEPT ![r] = raiseOnFlag /\ pipe.flag]
    /\ pc' = [pc EXCEPT ![r] = "logs"]
    /\ UNCHANGED << modVars, exVars, dbVars, cfgVars, convVars, seqVars, pageVars >>
    /\ UNCHANGED << pipe, mods, raiseOnFlag, by, content, fut, logs, resp >>

\* audit_logs = self.executor.get_logs(), in the try block or the except block.
GetLogs(r) ==
    /\ pc[r] = "logs"
    /\ logs' = [logs EXCEPT ![r] =
                 Some([audit_logs |-> << PipeGetAuditLogs(pipe, mods) >>,
                       writers |-> {by.pipe} \cup
                                   (IF pipe.audit THEN {by.mods[i] : i \in DOMAIN mods}
                                    ELSE {})])]
    /\ pc' = [pc EXCEPT ![r] = "respond"]
    /\ UNCHANGED << modVars, exVars, dbVars, cfgVars, convVars, seqVars, pageVars >>
    /\ UNCHANGED << pipe, mods, raiseOnFlag, by, content, fut, raised, resp >>

\* The rest of the handler: read the flag (or the flagged responses) and answer.
Respond(r) ==
    /\ pc[r] = "respond"
    /\ resp' = [resp EXCEPT ![r] =
                 IF raised[r]
                 THEN Some([status |-> 200, detail |-> "Flagged", flagged |-> TRUE,
                            transformed_content |-> PipeFlaggedResponse(pipe, mods),
                            audit_logs |-> logs[r][1].audit_logs])
                 ELSE Some([status |-> 200, detail |-> "Success", flagged |-> pipe.flag,
                            transformed_content |-> content[r][1],
                            audit_logs |-> logs[r][1].audit_logs])]
    /\ pc' = [pc EXCEPT ![r] = "done"]
    /\ UNCHANGED << modVars, exVars, dbVars, cfgVars, convVars, seqVars, pageVars >>
    /\ UNCHANGED << pipe, mods, raiseOnFlag, by, content, fut, raised, logs >>

Handler(r) ==
    \/ BeginRun(r)
    \/ StartModule(r)
    \/ FinishModule(r)
    \/ EndRun(r)
    \/ ExecutorCheck(r)
    \/ GetLogs(r)
    \/ Respond(r)

\* One pipe, requests handled one after the other.
PipeInit ==
    /\ NoConfig
    /\ NoConversation
    /\ NoSequential
    /\ NoPaging
    /\ NoModule
    /\ NoExecutor
    /\ NoStore
    /\ \E n \in 0..MaxModules, audit \in BOOLEAN, strategy \in {"any", "all", "manual"},
          stop \in BOOLEAN, workers \in 1..MaxWorkers, raise \in BOOLEAN :
            ExecutorInit(n, audit, strategy, stop, workers, raise)
PipeNext == Receive("A", Contents) \/ ReceiveNext("A") \/ Handler("A")
SpecPipe == PipeInit /\ [][PipeNext]_vars

\* The gateway: the handlers of two requests run concurrently on the one
\* executor (Flask serves each request on its own thread).
GatewayInit ==
    /\ NoConfig
    /\ NoConversation
    /\ NoSequential
    /\ NoPaging
    /\ NoModule
    /\ NoExecutor
    /\ NoStore
    /\ \E strategy \in {"any", "all"}, raise \in BOOLEAN :
            ExecutorInit(2, TRUE, strategy, TRUE, 2, raise)
GatewayNext == \E r \in Requests : Receive(r, GatewayContents) \/ Handler(r)
SpecGateway == GatewayInit /\ [][GatewayNext]_vars

\* A thread pipe over modules of both kinds, audited or not: at position i a
\* keyword filter for "a" or a rewriting module.
ModuleMenu(i) ==
    UNION {{NewFilter("KeywordFilter", ModuleNames[i], [t \in {1} |-> << KwA >>],
                      TRUE, audit, "Query flagged by policy."),
            NewCustomModule(ModuleNames[i], audit)} : audit \in BOOLEAN}
ModuleLists ==
    UNION {{ms \in [1..n -> UNION {ModuleMenu(i) : i \in 1..n}] :
                \A i \in 1..n : ms[i] \in ModuleMenu(i)} : n \in 1..MaxModules}
ThreadInit ==
    /\ NoConfig
    /\ NoConversation
    /\ NoSequential
    /\ NoPaging
    /\ NoModule
    /\ NoExecutor
    /\ NoStore
    /\ \E ms \in ModuleLists, audit \in BOOLEAN, stop \in BOOLEAN, workers \in 1..MaxWorkers :
        /\ pipe = NewThreadPipe("Filtering Pipe", audit, "all", stop, workers)
        /\ mods = InitializeModules(ms)
        /\ raiseOnFlag = FALSE
        /\ by = [pipe |-> "init", mods |-> [i \in DOMAIN ms |-> "init"]]
        /\ pc = [r \in Requests |-> "idle"]
        /\ content = [r \in Requests |-> None]
        /\ fut = [r \in Requests |-> [i \in DOMAIN ms |-> "pending"]]
        /\ raised = [r \in Requests |-> FALSE]
        /\ logs = [r \in Requests |-> None]
        /\ resp = [r \in Requests |-> None]
ThreadNext == Receive("A", {Str(<< >>), Str(KwA)}) \/ Handler("A")
SpecThread == ThreadInit /\ [][ThreadNext]_vars

\* A sequential pipe over the same modules, called by its owner on the
\* caller's thread, one call after the other.
SequentialInit ==
    /\ NoConfig
    /\ NoConversation
    /\ NoSequential
    /\ NoPaging
    /\ NoModule
    /\ NoExecutor
    /\ NoStore
    /\ \E ms \in ModuleLists, audit \in BOOLEAN, strategy \in {"any", "all"}, stop \in BOOLEAN :
        /\ pipe = NewSequentialPipe("Rewriting Pipe", audit, strategy, stop)
        /\ mods = InitializeModules(ms)
        /\ by = [pipe |-> "init", mods |-> [i \in DOMAIN ms |-> "init"]]
        /\ fut = [r \in Requests |-> [i \in DOMAIN ms |-> "pending"]]
    /\ raiseOnFlag = FALSE
    /\ pc = [r \in Requests |-> "idle"]
    /\ content = [r \in Requests |-> None]
    /\ raised = [r \in Requests |-> FALSE]
    /\ logs = [r \in Requests |-> None]
    /\ resp = [r \in Requests |-> None]

\* pipe(query), c being what the call does to the pipe and returns.
SequentialCalled(q, c) ==
    /\ content' = [content EXCEPT !["A"] = Some(q)]
    /\ pipe' = c.p
    /\ mods' = c.ms
    /\ seqSeen' = c.seen
    /\ seqRet' = Some(c.result)
CallSequential ==
    /\ \E q \in {Str(<< >>), Str(KwA), NotAStr} :
          SequentialCalled(q, SequentialCall(pipe, mods, q, 0, 0))
    /\ logs' = [logs EXCEPT !["A"] = None]
    /\ UNCHANGED << modVars, exVars, dbVars, cfgVars, convVars, pageVars >>
    /\ UNCHANGED << raiseOnFlag, by, pc, fut, raised, resp, flagHist >>

\* pipe.get_audit_logs() after a call
SequentialLogs ==
    /\ seqRet # None
    /\ logs["A"] = None
    /\ logs' = [logs EXCEPT !["A"] = Some([audit_logs |-> << PipeGetAuditLogs(pipe, mods) >>,
                                           writers |-> {"A"}])]
    /\ UNCHANGED << modVars, exVars, dbVars, cfgVars, convVars, seqVars, pageVars >>
    /\ UNCHANGED << pipe, mods, raiseOnFlag, by, pc, content, fut, raised, resp >>

SequentialNext == CallSequential \/ SequentialLogs
SpecSequential == SequentialInit /\ [][SequentialNext]_vars

\* A pipe of the user's own class with modules: its run calls its modules,
\* set_flag and _force_set_flag as it likes, then returns or raises.
BodyInit ==
    /\ NoConfig
    /\ NoConversation
    /\ NoSequential
    /\ NoPaging
    /\ NoModule
    /\ NoExecutor
    /\ NoStore
    /\ \E n \in 1..MaxModules, strategy \in {"manual", "any", "all"} :
        /\ pipe = [NewCustomPipe("Custom Pipe", 1, TRUE, "pass")
                      EXCEPT !.flagging_strategy = strategy]
        /\ mods = InitializeModules([i \in 1..n |-> SampleModule(i)])
        /\ by = [pipe |-> "init", mods |-> [i \in 1..n |-> "init"]]
        /\ fut = [r \in Requests |-> [i \in 1..n |-> "pending"]]
    /\ raiseOnFlag = FALSE
    /\ pc = [r \in Requests |-> "idle"]
    /\ content = [r \in Requests |-> None]
    /\ raised = [r \in Requests |-> FALSE]
    /\ logs = [r \in Requests |-> None]
    /\ resp = [r \in Requests |-> None]

\* pipe(query), Pipe._run up to the call of run: self.reset().
BodyBegin ==
    /\ pc["A"] \in {"idle", "done"}
    /\ \E q \in {Str(<< >>), Str(KwA)} : content' = [content EXCEPT !["A"] = Some(q)]
    /\ pipe' = PipeReset(pipe, mods).p
    /\ mods' = PipeReset(pipe, mods).ms
    /\ flagHist' = NoFlagCall
    /\ raised' = [raised EXCEPT !["A"] = FALSE]
    /\ pc' = [pc EXCEPT !["A"] = "body"]
    /\ UNCHANGED << seqSeen, seqRet >>
    /\ UNCHANGED << modVars, exVars, dbVars, cfgVars, convVars, pageVars >>
    /\ UNCHANGED << raiseOnFlag, by, fut, logs, resp >>

\* run calls one of the modules on the query.
BodyCallModule ==
    /\ pc["A"] = "body"
    /\ \E i \in DOMAIN mods :
          mods' = [mods EXCEPT ![i] = ModuleCall(mods[i], content["A"][1], 0, 0).m]
    /\ UNCHANGED << modVars, exVars, dbVars, cfgVars, convVars, seqVars, pageVars >>
    /\ UNCHANGED << pipe, raiseOnFlag, by, pc, content, fut, raised, logs, resp >>

\* run calls self.set_flag() or self.set_flag(a boolean).
BodySetFlag ==
    /\ pc["A"] = "body"
    /\ \E flag \in {None, Some(TRUE), Some(FALSE)} :
        /\ pipe' = PipeSetFlag(pipe, mods, flag)
        /\ flagHist' = [called |-> TRUE,
                        last |-> IF flag = None THEN flagHist.last ELSE flag]
    /\ UNCHANGED << seqSeen, seqRet >>
    /\ UNCHANGED << modVars, exVars, dbVars, cfgVars, convVars, pageVars >>
    /\ UNCHANGED << mods, raiseOnFlag, by, pc, content, fut, raised, logs, resp >>

\* run calls self._force_set_flag(a boolean).
BodyForceSetFlag ==
    /\ pc["A"] = "body"
    /\ \E b \in BOOLEAN :
        /\ pipe' = PipeForceSetFlag(pipe, b)
        /\ flagHist' = [called |-> TRUE, last |-> Some(b)]
    /\ UNCHANGED << seqSeen, seqRet >>
    /\ UNCHANGED << modVars, exVars, dbVars, cfgVars, convVars, pageVars >>
    /\ UNCHANGED << mods, raiseOnFlag, by, pc, content, fut, raised, logs, resp >>

\* run returns the query: the try branch of Pipe._run.
BodyReturn ==
    /\ pc["A"] = "body"
    /\ pipe' = PipeRunReturned(pipe, content["A"][1], content["A"][1], 0, 0)
    /\ pc' = [pc EXCEPT !["A"] = "done"]
    /\ UNCHANGED << modVars, exVars, dbVars, cfgVars, convVars, seqVars, pageVars >>
    /\ UNCHANGED << mods, raiseOnFlag, by, content, fut, raised, logs, resp >>

\* run raises: the except branch of Pipe._run.
BodyRaise ==
    /\ pc["A"] = "body"
    /\ pipe' = PipeRunRaised(pipe, 0, 0)
    /\ raised' = [raised EXCEPT !["A"] = TRUE]
    /\ pc' = [pc EXCEPT !["A"] = "done"]
    /\ UNCHANGED << modVars, exVars, dbVars, cfgVars, convVars, seqVars, pageVars >>
    /\ UNCHANGED << mods, raiseOnFlag, by, content, fut, logs, resp >>

BodyNext ==
    \/ BodyBegin
    \/ BodyCallModule
    \/ BodySetFlag
    \/ BodyForceSetFlag
    \/ BodyReturn
    \/ BodyRaise
SpecBody == BodyInit /\ [][BodyNext]_vars

\* ------------------------------------------------- an executor and its pipes
\* The texts given to the executor: "" and "a".
Texts == {Str(<< >>), Str(KwA)}

\* The pipes of an executor: ids 1..n over the input pipes, then the output
\* pipes, each with its behaviour.
CustomPipes(from, to, audit, beh) ==
    [j \in 1..(to - from + 1) |->
        NewCustomPipe(PipeTags[from + j - 1], from + j - 1, audit, beh[from + j - 1])]

\* SecuRAGExecutor(input_pipes, output_pipes, raise_on_flag)
NewExecutor(n, k, audit, beh, raise) ==
    /\ exPipes = [input |-> CustomPipes(1, k, audit, beh),
                  output |-> CustomPipes(k + 1, n, audit, beh)]
    /\ exRaise = raise
    /\ exPc = "idle"
    /\ exChain = "input"
    /\ exIn = None
    /\ exText = None
    /\ exIdx = 1
    /\ exSeen = << >>
    /\ exError = None

ExecutorSpecInit ==
    /\ NoConfig
    /\ NoConversation
    /\ NoSequential
    /\ NoPaging
    /\ NoModule
    /\ NoPipe
    /\ NoStore
    /\ \E n \in 0..MaxPipes, audit \in BOOLEAN, raise \in BOOLEAN :
       \E k \in 0..n, beh \in [1..n -> Behaviours] :
            NewExecutor(n, k, audit, beh, raise)

\* execute_inputs(text) / execute_outputs(text) is called.
Execute(chain) ==
    /\ exPc # "run"
    /\ \E q \in Texts :
        /\ exIn' = Some(q)
        /\ exText' = Some(q)
    /\ exChain' = chain
    /\ exPc' = "run"
    /\ exIdx' = 1
    /\ exSeen' = << >>
    /\ exError' = None
    /\ UNCHANGED << exPipes, exRaise >>
    /\ UNCHANGED << modVars, pipeVars, dbVars, cfgVars, convVars, seqVars, pageVars >>

\* The next pipe of the chain is called with the text so far; with
\* raise_on_flag a flagged pipe ends the call with the chain's exception.
CallPipe ==
    /\ exPc = "run"
    /\ exIdx <= Len(exPipes[exChain])
    /\ LET c == PipeCall(exPipes[exChain][exIdx], exText[1], 0, 0)
       IN /\ exPipes' = [exPipes EXCEPT ![exChain][exIdx] = c.p]
          /\ exSeen' = Append(exSeen, [input |-> exText[1], output |-> c.result,
                                       raised |-> c.raised])
          /\ exText' = Some(c.result)
          /\ IF exRaise /\ c.p.flag
             THEN /\ exPc' = "raised"
                  /\ exError' = Some(IF exChain = "input" THEN "FlaggedInputError"
                                     ELSE "FlaggedOutputError")
                  /\ UNCHANGED exIdx
             ELSE /\ exIdx' = exIdx + 1
                  /\ UNCHANGED << exPc, exError >>
    /\ UNCHANGED << exRaise, exChain, exIn >>
    /\ UNCHANGED << modVars, pipeVars, dbVars, cfgVars, convVars, seqVars, pageVars >>

\* Every pipe of the chain has run: the call returns the text.
ExecuteReturn ==
    /\ exPc = "run"
    /\ exIdx > Len(exPipes[exChain])
    /\ exPc' = "returned"
    /\ UNCHANGED << exPipes, exRaise, exChain, exIn, exText, exIdx, exSeen, exError >>
    /\ UNCHANGED << modVars, pipeVars, dbVars, cfgVars, convVars, seqVars, pageVars >>

ExecutorNext ==
    \/ Execute("input")
    \/ Execute("output")
    \/ CallPipe
    \/ ExecuteReturn
SpecExecutor == ExecutorSpecInit /\ [][ExecutorNext]_vars

\* -------------------------------------------- the gateway and the audit store
\* The message_id of a transform request: absent, "", or "m1".
RequestMids == {None, Some(""), Some("m1")}
\* if message_id: whether the message_id of a request is truthy.
Truthy(mid) == mid # None /\ mid # Some("")

One(v) == [is_list |-> FALSE, items |-> << v >>]
List(vs) == [is_list |-> TRUE, items |-> vs]

\* Which row of a call meets errors, how many "database is locked" errors it
\* meets, and how its insert ends after them.
Oracles == [at : 1..MaxRows, locks : 0..MaxLocks, then : {"ok", "error", "integrity"}]
NoFailure == [at |-> 1, locks |-> 0, then |-> "ok"]
FirstRowFails == [at |-> 1, locks |-> 0, then |-> "error"]
FirstRowIntegrity == [at |-> 1, locks |-> 0, then |-> "integrity"]

\* The two checks of the body at the head of the transform handlers: content
\* is absent, or message_id is absent while the request asks for logs and
\* the server writes them.
BadRequestContentOnly(q, mid, wl, w) == q = None
BadRequest(q, mid, wl, w) == q = None \/ (mid = None /\ w /\ wl)

\* execute_inputs / execute_outputs as one step: the pipes of the chain from
\* position i on, run on text.
RECURSIVE RunChain(_, _, _, _, _)
RunChain(pipes, i, text, raise, seen) ==
    IF i > Len(pipes)
    THEN [pipes |-> pipes, text |-> text, idx |-> i, seen |-> seen, pc |-> "returned"]
    ELSE LET c == PipeCall(pipes[i], text, 0, 0)
             pipes2 == [pipes EXCEPT ![i] = c.p]
             seen2 == Append(seen, [input |-> text, output |-> c.result, raised |-> c.raised])
         IN IF raise /\ c.p.flag
            THEN [pipes |-> pipes2, text |-> c.result, idx |-> i, seen |-> seen2,
                  pc |-> "raised"]
            ELSE RunChain(pipes2, i + 1, c.result, raise, seen2)

\* The JSON object of a pipe's audit tree, as far as the store reads it: its
\* id and its status.
AuditJson(p) == JObj(Some(JNum(p.id[1])), p.audit_log.status)
\* executor.get_logs(): the audit trees of the input pipes, then of the output
\* pipes.
ExecutorLogs(pipes) ==
    [j \in DOMAIN pipes.input |-> AuditJson(pipes.input[j])]
        \o [j \in DOMAIN pipes.output |-> AuditJson(pipes.output[j])]

\* The request just handled, when it was a delete answered 200.
PreviousDelete ==
    IF hreq # None /\ hreq[1].kind = "delete" /\ hresp[1].status = 200
    THEN Some([message_id |-> hreq[1].message_id, deleted |-> hresp[1].deleted])
    ELSE None

\* POST /api/transform-input (chain "input") and /api/transform-output
\* (chain "output"), the whole handler; the executor's call is one step of it
\* (the variables that follow a call pipe by pipe stay as they are).
Transform(chain) ==
    \E q \in {None, Some(Str(KwA))}, mid \in RequestMids, wl \in BOOLEAN :
    \E oracle \in IF wl /\ writeLogs /\ Truthy(mid)
                   THEN {NoFailure, FirstRowFails, FirstRowIntegrity}
                   ELSE {NoFailure} :
        LET req == [kind |-> "transform", chain |-> chain, content |-> q,
                    message_id |-> mid, write_log |-> wl]
            e == RunChain(exPipes[chain], 1, q[1], exRaise, << >>)
            pipes2 == [exPipes EXCEPT ![chain] = e.pipes]
            audit_logs == ExecutorLogs(pipes2)
            persist == wl /\ writeLogs /\ Truthy(mid)
            out == InsertAudit(writeLogs, dialect, store, mid[1], List(audit_logs), oracle)
            flagged == \E j \in DOMAIN e.pipes : e.pipes[j].flag
        IN /\ hreq' = Some(req)
           /\ hprev' = PreviousDelete
           /\ IF BadRequest(q, mid, wl, writeLogs)
              THEN /\ hresp' = Some([status |-> 400])
                   /\ UNCHANGED << store, ins, dbOps, exVars >>
              ELSE /\ persist => Len(store) + Len(audit_logs) <= MaxRows
                   /\ exPipes' = pipes2
                   /\ UNCHANGED << exRaise, exPc, exChain, exIn, exText, exIdx, exSeen,
                                   exError >>
                   /\ IF persist
                      THEN /\ store' = out.store
                           /\ ins' = [called |-> TRUE, message_id |-> mid[1],
                                      content |-> List(audit_logs), before |-> store,
                                      oracle |-> oracle, out |-> out]
                           /\ dbOps' = dbOps \cup (IF out.ran THEN {"insert"} ELSE {})
                      ELSE UNCHANGED << store, ins, dbOps >>
                   /\ hresp' =
                        IF persist /\ out.raised # ""
                        THEN Some([status |-> 500])
                        ELSE IF e.pc = "raised"
                        THEN Some([status |-> 200, detail |-> "Flagged", flagged |-> TRUE,
                                   audit_logs |-> audit_logs])
                        ELSE Some([status |-> 200, detail |-> "Success", flagged |-> flagged,
                                   audit_logs |-> audit_logs])
           /\ UNCHANGED << writeLogs, dialect >>
           /\ UNCHANGED << modVars, pipeVars, cfgVars, convVars, seqVars, pageVars >>

\* A call of _insert_audit(message_id, content).
InsertCall(Calls_, Oracles_) ==
    \E call \in Calls_, oracle \in Oracles_ :
        LET mid == call.message_id
            c == call.content
            out == InsertAudit(writeLogs, dialect, store, mid, c, oracle)
            req == [kind |-> "insert", message_id |-> mid]
        IN /\ Len(store) + Len(c.items) <= MaxRows
           /\ oracle.at <= Len(c.items) \/ oracle = NoFailure
           /\ store' = out.store
           /\ ins' = [called |-> TRUE, message_id |-> mid, content |-> c,
                      before |-> store, oracle |-> oracle, out |-> out]
           /\ hreq' = Some(req)
           /\ hresp' = Some([status |-> IF out.raised = "" THEN 200 ELSE 500])
           /\ hprev' = PreviousDelete
           /\ dbOps' = dbOps \cup (IF out.ran THEN {"insert"} ELSE {})
           /\ UNCHANGED << writeLogs, dialect >>
           /\ UNCHANGED << modVars, pipeVars, exVars, cfgVars, convVars, seqVars, pageVars >>

\* GET /api/audit/<message_id>/
RetrieveAudits(Mids_) ==
    \E mid \in Mids_ :
        LET sel == SelectAudits(writeLogs, store, mid)
            req == [kind |-> "get", message_id |-> mid]
        IN /\ hreq' = Some(req)
           /\ hresp' = IF WriteDisabled(writeLogs) THEN Some([status |-> 403])
                       ELSE IF sel.raised # "" THEN Some([status |-> 500])
                       ELSE Some([status |-> 200, items |-> sel.items])
           /\ hprev' = PreviousDelete
           /\ dbOps' = dbOps \cup (IF ~WriteDisabled(writeLogs) /\ sel.ran THEN {"select"} ELSE {})
           /\ UNCHANGED << writeLogs, dialect, store, ins >>
           /\ UNCHANGED << modVars, pipeVars, exVars, cfgVars, convVars, seqVars, pageVars >>

\* DELETE /api/audit/<message_id>/delete/
DeleteAuditsRequest(Mids_) ==
    \E mid \in Mids_ :
        LET del == DeleteAudits(writeLogs, store, mid)
            req == [kind |-> "delete", message_id |-> mid]
        IN /\ hreq' = Some(req)
           /\ IF WriteDisabled(writeLogs)
              THEN /\ hresp' = Some([status |-> 403])
                   /\ UNCHANGED << store, dbOps >>
              ELSE /\ hresp' = Some([status |-> 200, deleted |-> del.deleted])
                   /\ store' = del.store
                   /\ dbOps' = dbOps \cup (IF del.ran THEN {"delete"} ELSE {})
           /\ hprev' = PreviousDelete
           /\ UNCHANGED << writeLogs, dialect, ins >>
           /\ UNCHANGED << modVars, pipeVars, exVars, cfgVars, convVars, seqVars, pageVars >>

\* SecuRAGServer.__init__: the write flag, and the engine when it is set.
ServerInit(w, dia) ==
    /\ writeLogs = w
    /\ dialect = dia
    /\ store = << >>
    /\ ins = NoInsert
    /\ hreq = None
    /\ hresp = None
    /\ hprev = None
    /\ dbOps = {}

\* The gateway with an executor of one input and one output pipe.
AuditInit ==
    /\ NoConfig
    /\ NoConversation
    /\ NoSequential
    /\ NoPaging
    /\ NoModule
    /\ NoPipe
    /\ \E b \in {"pass", "flag"}, raise \in BOOLEAN :
            NewExecutor(2, 1, TRUE, [j \in 1..2 |-> b], raise)
    /\ \E w \in BOOLEAN : ServerInit(w, "sqlite")
AuditNext ==
    \/ Transform("input")
    \/ Transform("output")
    \/ RetrieveAudits({"m1"})
    \/ DeleteAuditsRequest({"m1"})
SpecAudit == AuditInit /\ [][AuditNext]_vars

\* Calls of _insert_audit with a single entry or a list, whose inserts meet
\* errors; deletes make room.
SmallCalls ==
    {[message_id |-> "m1", content |-> c] :
        c \in {One(JNum(1)), List(<< >>), List(<< JNum(1), JNum(2) >>)}}
InsertInit ==
    /\ NoConfig
    /\ NoConversation
    /\ NoSequential
    /\ NoPaging
    /\ NoModule
    /\ NoPipe
    /\ NoExecutor
    /\ \E w \in BOOLEAN, dia \in {"sqlite", "mysql"} : ServerInit(w, dia)
InsertNext ==
    \/ InsertCall(SmallCalls, Oracles)
    \/ DeleteAuditsRequest({"m1"})
SpecInsert == InsertInit /\ [][InsertNext]_vars

\* The audit trail on its own: single entries of every kind go in under "m1"
\* (and a number under "m2"), and are read and deleted through the gateway.
TrailContents ==
    {One(v) : v \in {JNull, JNum(1), JStr("hello"), JStr("1"),
                     JObj(None, "p"), JObj(Some(JNull), "p"), JObj(Some(JNum(1)), "p"),
                     JObj(Some(JNum(2)), "p"), JObj(Some(JStr("a")), "p")}}
TrailCalls ==
    {[message_id |-> "m1", content |-> c] : c \in TrailContents}
        \cup {[message_id |-> "m2", content |-> One(JNum(1))]}
TrailInit ==
    /\ NoConfig
    /\ NoConversation
    /\ NoSequential
    /\ NoPaging
    /\ NoModule
    /\ NoPipe
    /\ NoExecutor
    /\ ServerInit(TRUE, "sqlite")
TrailNext ==
    \/ InsertCall(TrailCalls, {NoFailure})
    \/ RetrieveAudits({"m1"})
    \/ DeleteAuditsRequest({"m1"})
SpecTrail == TrailInit /\ [][TrailNext]_vars

\* ------------------------------------------------------ a filter is built
\* The keys and the values of the dicts tried.
RawKeys == {IntKey(n) : n \in 0..MaxThreshold} \cup {StrKey}
RawValues(kind) == {ListOf(<< TermA(kind) >>), ListOf(<< Paren(kind) >>), NotAList}
RawEntries(kind) == [key : RawKeys, value : RawValues(kind)]
\* The arguments tried: no dict, the empty dict, dicts of one or two entries.
RawMaps(kind) ==
    {NotADict, Dict(<< >>)}
        \cup {Dict(<< e >>) : e \in RawEntries(kind)}
        \cup {Dict(<< e, f >>) : e \in RawEntries(kind),
                                 f \in {g \in RawEntries(kind) : g.key = IntKey(1)}}

\* A constructor is called; when it returns, the instance is the module used.
ConstructFilter ==
    /\ \E kind \in {"KeywordFilter", "RegexFilter"} :
       \E raw \in {m \in RawMaps(kind) :
                    \A i, j \in DOMAIN m.entries : i # j => m.entries[i].key # m.entries[j].key} :
            LET c == Construct(kind, "Filtering Module", raw, FALSE, TRUE,
                               "Query flagged by policy.")
            IN /\ ctor' = Some([kind |-> kind, raw |-> raw, raised |-> c.raised,
                                instance |-> c.instance])
               /\ mod' = IF c.instance = None THEN mod ELSE c.instance[1]
    /\ modQuery' = None
    /\ modRet' = None
    /\ modRaised' = FALSE
    /\ modPrev' = FALSE
    /\ UNCHANGED initd
    /\ UNCHANGED << pipeVars, exVars, dbVars, convVars, seqVars, pageVars >>

ConstructInit ==
    /\ NoModule
    /\ NoPipe
    /\ NoExecutor
    /\ NoStore
    /\ NoConfig
    /\ NoConversation
    /\ NoSequential
    /\ NoPaging
ConstructNext == ConstructFilter
SpecConstruct == ConstructInit /\ [][ConstructNext]_vars

\* --------------------------------------------- a pipe's modules are declared
\* Pipe(name, modules): the modules handed to a pipe, whose names may repeat.
DeclareModules ==
    /\ \E n \in 0..MaxModules :
       \E names \in [1..n -> {ModuleNames[1], ModuleNames[2]}], audits \in [1..n -> BOOLEAN] :
            mods' = [i \in 1..n |->
                        NewFilter("KeywordFilter", names[i], [t \in {1} |-> << KwA >>],
                                  TRUE, audits[i], "Query flagged by policy.")]
    /\ initd' = None
    /\ UNCHANGED << pipe, raiseOnFlag, by, pc, content, fut, raised, logs, resp, ctor >>
    /\ UNCHANGED << modVars, exVars, dbVars, convVars, seqVars, pageVars >>

\* pipe.initialize_modules()
InitializeCall ==
    /\ LET r == InitializeLoop(mods, 1, {})
       IN /\ mods' = r.ms
          /\ initd' = Some(r.raised)
    /\ UNCHANGED << pipe, raiseOnFlag, by, pc, content, fut, raised, logs, resp, ctor >>
    /\ UNCHANGED << modVars, exVars, dbVars, convVars, seqVars, pageVars >>

\* A module of the pipe is called: module(query).
CallModule ==
    /\ \E i \in DOMAIN mods, q \in {Str(<< >>), Str(KwA)} :
            mods' = [mods EXCEPT ![i] = ModuleCall(mods[i], q, 0, 0).m]
    /\ UNCHANGED << pipe, raiseOnFlag, by, pc, content, fut, raised, logs, resp >>
    /\ UNCHANGED << modVars, exVars, dbVars, cfgVars, convVars, seqVars, pageVars >>

InitializeInit ==
    /\ NoModule
    /\ NoPipe
    /\ NoExecutor
    /\ NoStore
    /\ NoConfig
    /\ NoConversation
    /\ NoSequential
    /\ NoPaging
InitializeNext ==
    \/ DeclareModules
    \/ InitializeCall
    \/ CallModule
SpecInitialize == InitializeInit /\ [][InitializeNext]_vars

\* ------------------------------------------ the application server's turns
\* What the gateway may answer to transform-input and transform-output: 200
\* with a transformed_content (or none) and a flagged, or another status.
TransformReplies ==
    {[status |-> 200, transformed_content |-> t, flagged |-> f] :
        t \in {None, Some("transformed")}, f \in BOOLEAN} \cup {[status |-> 500]}
\* What it may answer to ai-response.
AiReplies == {[status |-> 200, ai_response |-> "generated"], [status |-> 500]}

\* Max('order') over the messages of a conversation, `or 0`.
LastOrder(rows, c) ==
    LET orders == {rows[j].order : j \in {k \in DOMAIN rows : rows[k].conversation = c}}
    IN IF orders = {} THEN 0 ELSE CHOOSE o \in orders : \A x \in orders : x <= o

\* Message.objects.create: the row gets the next id; the unique constraint on
\* (conversation, order) makes the create raise IntegrityError.
Clashes(rows, c, order) ==
    \E j \in DOMAIN rows : rows[j].conversation = c /\ rows[j].order = order
NewMessage(rows, c, role, order, text, transformed) ==
    [id |-> Len(rows) + 1, conversation |-> c, role |-> role, order |-> order,
     content |-> text, transformed_content |-> transformed]

\* `if input_flagged:` where the view goes once the input is transformed.
AfterInputAlwaysGenerates(flagged) == "ai_response"
AfterInput(flagged) == IF flagged THEN "create_assistant" ELSE "ai_response"

\* start_conversation up to the read of the last order: the conversation is
\* created.
StartConversation(r) ==
    /\ turn[r].pc = "idle"
    /\ Cardinality(convs) < MaxConversations
    /\ Len(msgs) + 2 <= MaxMessages
    /\ LET c == Cardinality(convs) + 1
       IN /\ convs' = convs \cup {c}
          /\ turn' = [turn EXCEPT ![r] = [IdleTurn EXCEPT !.pc = "read_order",
                                                          !.view = "start",
                                                          !.conversation = Some(c)]]
    /\ UNCHANGED msgs
    /\ UNCHANGED << modVars, pipeVars, exVars, dbVars, cfgVars, seqVars, pageVars >>

\* continue_conversation up to the read of the last order: 404 when the
\* conversation does not exist.
ContinueConversation(r) ==
    /\ turn[r].pc = "idle"
    /\ Len(msgs) + 2 <= MaxMessages
    /\ \E c \in 1..MaxConversations :
          turn' = [turn EXCEPT ![r] =
                     IF c \in convs
                     THEN [IdleTurn EXCEPT !.pc = "read_order", !.view = "continue",
                                           !.conversation = Some(c)]
                     ELSE [IdleTurn EXCEPT !.pc = "done", !.view = "continue",
                                           !.status = Some(404)]]
    /\ UNCHANGED << convs, msgs >>
    /\ UNCHANGED << modVars, pipeVars, exVars, dbVars, cfgVars, seqVars, pageVars >>

\* last_order = Message.objects.filter(...).aggregate(m=Max('order'))['m'] or 0
ReadOrder(r) ==
    /\ turn[r].pc = "read_order"
    /\ turn' = [turn EXCEPT ![r] =
                  [@ EXCEPT !.pc = "create_user",
                            !.last_order = Some(LastOrder(msgs, turn[r].conversation[1]))]]
    /\ UNCHANGED << convs, msgs >>
    /\ UNCHANGED << modVars, pipeVars, exVars, dbVars, cfgVars, seqVars, pageVars >>

\* user_msg = Message.objects.create(..., role='user', order=last_order + 1)
CreateUser(r) ==
    /\ turn[r].pc = "create_user"
    /\ LET c == turn[r].conversation[1]
           order == turn[r].last_order[1] + 1
           row == NewMessage(msgs, c, "user", order, "said", None)
       IN IF Clashes(msgs, c, order)
          THEN /\ turn' = [turn EXCEPT ![r] = [@ EXCEPT !.pc = "done", !.status = Some(500)]]
               /\ UNCHANGED msgs
          ELSE /\ msgs' = Append(msgs, row)
               /\ turn' = [turn EXCEPT ![r] = [@ EXCEPT !.pc = "transform_input",
                                                         !.user_msg = Some(row)]]
    /\ UNCHANGED convs
    /\ UNCHANGED << modVars, pipeVars, exVars, dbVars, cfgVars, seqVars, pageVars >>

\* simulate_input_transformation and the view up to its next call: a status
\* other than 200 makes the helper return None, which the unpacking of the
\* view turns into a TypeError (500); no transformed content is a 400; else
\* the user message gets its transformed content and a flagged input skips
\* the generation.
TransformInput(r) ==
    /\ turn[r].pc = "transform_input"
    /\ \E reply \in TransformReplies :
        LET t == [turn[r] EXCEPT !.calls = Append(@, "transform-input"),
                                 !.reply_status = Some(reply.status)]
        IN IF reply.status # 200
           THEN /\ turn' = [turn EXCEPT ![r] = [t EXCEPT !.pc = "done", !.status = Some(500)]]
                /\ UNCHANGED msgs
           ELSE IF reply.transformed_content = None
           THEN /\ turn' = [turn EXCEPT ![r] =
                              [t EXCEPT !.pc = "done", !.status = Some(400),
                                        !.input_flagged = Some(reply.flagged)]]
                /\ UNCHANGED msgs
           ELSE /\ msgs' = [msgs EXCEPT ![t.user_msg[1].id] =
                              [@ EXCEPT !.transformed_content = reply.transformed_content]]
                /\ turn' = [turn EXCEPT ![r] =
                              [t EXCEPT !.pc = AfterInput(reply.flagged),
                                        !.input_t = reply.transformed_content,
                                        !.input_flagged = Some(reply.flagged),
                                        !.ai_raw = IF reply.flagged
                                                   THEN Some("Not Generated due to flagged Input")
                                                   ELSE None,
                                        !.ai_out = IF reply.flagged
                                                   THEN reply.transformed_content
                                                   ELSE None]]
    /\ UNCHANGED convs
    /\ UNCHANGED << modVars, pipeVars, exVars, dbVars, cfgVars, seqVars, pageVars >>

\* simulate_ai_response({"prompt": input_t}): None (400) on a status other
\* than 200.
AiResponse(r) ==
    /\ turn[r].pc = "ai_response"
    /\ \E reply \in AiReplies :
        LET t == [turn[r] EXCEPT !.calls = Append(@, "ai-response"),
                                 !.reply_status = Some(reply.status)]
        IN turn' = [turn EXCEPT ![r] =
                      IF reply.status # 200
                      THEN [t EXCEPT !.pc = "done", !.status = Some(400)]
                      ELSE [t EXCEPT !.pc = "transform_output",
                                     !.ai_raw = Some(reply.ai_response)]]
    /\ UNCHANGED << convs, msgs >>
    /\ UNCHANGED << modVars, pipeVars, exVars, dbVars, cfgVars, seqVars, pageVars >>

\* simulate_output_transformation(ai_raw, ...), unpacked as the input's is.
TransformOutput(r) ==
    /\ turn[r].pc = "transform_output"
    /\ \E reply \in TransformReplies :
        LET t == [turn[r] EXCEPT !.calls = Append(@, "transform-output"),
                                 !.reply_status = Some(reply.status)]
        IN turn' = [turn EXCEPT ![r] =
                      IF reply.status # 200
                      THEN [t EXCEPT !.pc = "done", !.status = Some(500)]
                      ELSE IF reply.transformed_content = None
                      THEN [t EXCEPT !.pc = "done", !.status = Some(400)]
                      ELSE [t EXCEPT !.pc = "create_assistant",
                                     !.ai_out = reply.transformed_content]]
    /\ UNCHANGED << convs, msgs >>
    /\ UNCHANGED << modVars, pipeVars, exVars, dbVars, cfgVars, seqVars, pageVars >>

\* assistant_msg = Message.objects.create(..., order=user_msg.order + 1), and
\* the 201.
CreateAssistant(r) ==
    /\ turn[r].pc = "create_assistant"
    /\ LET c == turn[r].conversation[1]
           order == turn[r].user_msg[1].order + 1
           row == NewMessage(msgs, c, "assistant", order, turn[r].ai_raw[1], turn[r].ai_out)
       IN IF Clashes(msgs, c, order)
          THEN /\ turn' = [turn EXCEPT ![r] = [@ EXCEPT !.pc = "done", !.status = Some(500)]]
               /\ UNCHANGED msgs
          ELSE /\ msgs' = Append(msgs, row)
               /\ turn' = [turn EXCEPT ![r] = [@ EXCEPT !.pc = "done", !.status = Some(201)]]
    /\ UNCHANGED convs
    /\ UNCHANGED << modVars, pipeVars, exVars, dbVars, cfgVars, seqVars, pageVars >>

\* The worker that answered takes the next request.
NextTurn(r) ==
    /\ turn[r].pc = "done"
    /\ turn' = [turn EXCEPT ![r] = IdleTurn]
    /\ UNCHANGED << convs, msgs >>
    /\ UNCHANGED << modVars, pipeVars, exVars, dbVars, cfgVars, seqVars, pageVars >>

Turn(r) ==
    \/ StartConversation(r)
    \/ ContinueConversation(r)
    \/ ReadOrder(r)
    \/ CreateUser(r)
    \/ TransformInput(r)
    \/ AiResponse(r)
    \/ TransformOutput(r)
    \/ CreateAssistant(r)
    \/ NextTurn(r)

\* The application server handling one request after the other.
ConversationInit ==
    /\ NoConfig
    /\ NoSequential
    /\ NoPaging
    /\ NoModule
    /\ NoPipe
    /\ NoExecutor
    /\ NoStore
    /\ NoConversation
ConversationNext == Turn("A")
SpecConversation == ConversationInit /\ [][ConversationNext]_vars

\* The application server handling two requests at once, each on its own
\* worker: their database statements and gateway calls interleave.
\* They continue a conversation whose first turn is stored.
ContinueTurn(r) ==
    \/ ContinueConversation(r)
    \/ ReadOrder(r)
    \/ CreateUser(r)
    \/ TransformInput(r)
    \/ AiResponse(r)
    \/ TransformOutput(r)
    \/ CreateAssistant(r)
    \/ NextTurn(r)
TurnsInit ==
    /\ NoConfig
    /\ NoSequential
    /\ NoPaging
    /\ NoModule
    /\ NoPipe
    /\ NoExecutor
    /\ NoStore
    /\ convs = {1}
    /\ msgs = << [NewMessage(<< >>, 1, "user", 1, "said", None)
                    EXCEPT !.transformed_content = Some("transformed")],
                 [id |-> 2, conversation |-> 1, role |-> "assistant", order |-> 2,
                  content |-> "generated", transformed_content |-> Some("transformed")] >>
    /\ turn = [r \in {"A", "B"} |-> IdleTurn]
TurnsNext == \E r \in {"A", "B"} : ContinueTurn(r)
SpecTurns == TurnsInit /\ [][TurnsNext]_vars

\* ------------------------------------------------- the paging of the lists
\* order_by('-order')[:limit] over a set of orders: the largest first.
RECURSIVE TopDesc(_, _)
TopDesc(S, limit) ==
    IF S = {} \/ limit = 0 THEN << >>
    ELSE LET top == CHOOSE x \in S : \A y \in S : y <= x
         IN << top >> \o TopDesc(S \ {top}, limit - 1)

\* list(reversed(messages_desc))
Reversed(q) == [j \in DOMAIN q |-> q[Len(q) + 1 - j]]

\* get_conversation_messages for an existing conversation c: from is the
\* from_order of the query (None when absent); the orders of the messages of
\* the page, and next_from_order.
MessagesPageRepeats(rows, c, from, limit) ==
    LET of_c == {rows[j].order : j \in {k \in DOMAIN rows : rows[k].conversation = c}}
        provided_from == IF from = None THEN LastOrder(rows, c) ELSE from[1]
        messages == Reversed(TopDesc({o \in of_c : o <= provided_from}, limit))
    IN [messages |-> messages,
        next_from_order |->
            IF messages # << >> /\ (\E o \in of_c : o < messages[1])
            THEN Some(messages[1]) ELSE None]
MessagesPage(rows, c, from, limit) ==
    LET of_c == {rows[j].order : j \in {k \in DOMAIN rows : rows[k].conversation = c}}
        provided_from == IF from = None THEN LastOrder(rows, c) ELSE from[1]
        messages == Reversed(TopDesc({o \in of_c : o <= provided_from}, limit))
    IN [messages |-> messages,
        next_from_order |->
            IF messages # << >> /\ (\E o \in of_c : o < messages[1])
            THEN Some(messages[1] - 1) ELSE None]

\* order_by('-updated_at', '-created_at')[:limit] over a set of conversations
\* (their created_at all differ): the ids, the latest first.
RECURSIVE LatestFirst(_, _, _)
LatestFirst(st, C, limit) ==
    IF C = {} \/ limit = 0 THEN << >>
    ELSE LET top == CHOOSE c \in C : \A d \in C \ {c} :
                        \/ st[d].updated_at < st[c].updated_at
                        \/ /\ st[d].updated_at = st[c].updated_at
                           /\ st[d].created_at < st[c].created_at
         IN << top >> \o LatestFirst(st, C \ {top}, limit - 1)

\* list_conversations: from is the from_updated_at of the query (None when
\* absent), now the clock; the ids of the page, and next_from_updated_at.
ConversationsPage(st, now, from, limit) ==
    LET all == {st[c].updated_at : c \in DOMAIN st}
        provided_from == IF from # None THEN from[1]
                         ELSE IF all = {} THEN now
                         ELSE CHOOSE t \in all : \A u \in all : u <= t
        conversations == LatestFirst(st, {c \in DOMAIN st : st[c].updated_at <= provided_from},
                                     limit)
        min_updated_at == st[conversations[Len(conversations)]].updated_at
    IN [conversations |-> conversations,
        next_from_updated_at |->
            IF conversations # << >> /\ (\E t \in all : t < min_updated_at)
            THEN Some(min_updated_at - 1) ELSE None]

\* GET conversations/1/messages with the cursor the client holds: 404 when
\* the conversation does not exist.
GetConversationMessages ==
    /\ ~mPager.done
    /\ Len(mPager.pages) <= MaxMessages
    /\ mPager' =
          IF 1 \notin convs
          THEN [mPager EXCEPT !.done = TRUE, !.status = Some(404)]
          ELSE LET page == MessagesPage(msgs, 1, mPager.cursor, pgLimit)
               IN [cursor |-> page.next_from_order,
                   pages |-> Append(mPager.pages, page.messages),
                   done |-> page.next_from_order = None,
                   status |-> Some(200)]
    /\ UNCHANGED << stamps, pgLimit, cPager >>
    /\ UNCHANGED << modVars, pipeVars, exVars, dbVars, cfgVars, convVars, seqVars >>

\* GET conversations with the cursor the client holds.
ListConversations ==
    /\ ~cPager.done
    /\ Len(cPager.pages) <= MaxConversations
    /\ LET page == ConversationsPage(stamps, MaxTick, cPager.cursor, pgLimit)
       IN cPager' = [cursor |-> page.next_from_updated_at,
                     pages |-> Append(cPager.pages, page.conversations),
                     done |-> page.next_from_updated_at = None,
                     status |-> Some(200)]
    /\ UNCHANGED << stamps, pgLimit, mPager >>
    /\ UNCHANGED << modVars, pipeVars, exVars, dbVars, cfgVars, convVars, seqVars >>

\* The tables as turns leave them, with no request writing: up to
\* MaxConversations conversations, created one after the other and updated
\* at any times, the messages of each with the orders 1..n.
PagingInit ==
    /\ NoConfig
    /\ NoSequential
    /\ NoModule
    /\ NoPipe
    /\ NoExecutor
    /\ NoStore
    /\ turn = [r \in {"A", "B"} |-> IdleTurn]
    /\ \E n \in 0..MaxConversations :
        /\ convs = 1..n
        /\ \E upd \in [1..n -> 1..MaxTick] :
              stamps = [c \in 1..n |-> [created_at |-> c, updated_at |-> upd[c]]]
        /\ \E count \in [1..n -> 0..MaxMessages] :
              /\ \A c \in 2..n : count[c] <= 1
              /\ LET RECURSIVE Rows(_, _)
                     Rows(c, o) ==
                        IF c > n THEN << >>
                        ELSE IF o > count[c] THEN Rows(c + 1, 1)
                        ELSE << [conversation |-> c, order |-> o] >> \o Rows(c, o + 1)
                     raw == Rows(1, 1)
                 IN msgs = [j \in DOMAIN raw |->
                              [NewMessage(SubSeq(raw, 1, j - 1), raw[j].conversation,
                                          IF raw[j].order % 2 = 1 THEN "user" ELSE "assistant",
                                          raw[j].order, "said", None)
                               EXCEPT !.transformed_content = Some("transformed")]]
    /\ pgLimit \in 1..MaxLimit
    /\ mPager = NewPager
    /\ cPager = NewPager
PagingNext == GetConversationMessages \/ ListConversations
SpecPaging == PagingInit /\ [][PagingNext]_vars

\* --------------------------------------------------- claims about one module
\* The module as its constructor leaves it, with the configuration of mod.
FreshModule ==
    NewFilter(mod.kind, mod.name, mod.by_threshold, mod.stop_on_flag, mod.audit,
              mod.default_flagged_response)
\* The match count run computes for the bucket of threshold T on the latest query.
BucketCount(T) == CountDistinct(Matched(mod, mod.by_threshold[T], modQuery[1].val))
\* The thresholds whose bucket reaches its threshold on the latest query.
Reached == {T \in DOMAIN mod.by_threshold : BucketCount(T) >= T}
SeqRange(s) == {s[i] : i \in DOMAIN s}

\* C4: when run raises, the invocation returns normally with exactly the
\* original query, the module ends flagged, and with audit enabled its record
\* has status error with the message and the traceback in log.
C4_ErrorSwallowed ==
    modRaised =>
        /\ modRet = modQuery
        /\ mod.flag
        /\ mod.audit =>
            /\ mod.audit_log.status = "error"
            /\ {"message", "traceback"} \subseteq DOMAIN mod.audit_log.log
            /\ mod.audit_log.flag
C4_Witness ==
    /\ modRaised
    /\ mod.audit
    /\ mod.audit_log.status = "error"
    /\ modRet = Some(NotAStr)

\* C5: after every invocation the audit status is success, error or disabled,
\* never noexec, and the execution time is set and not negative, whether run
\* raised or not and whether audit is enabled or not.
C5_StatusAndTime ==
    modQuery # None =>
        /\ mod.audit_log.status \in {"success", "error", "disabled"}
        /\ mod.audit => mod.audit_log.status # "disabled"
        /\ mod.exec_time # None
        /\ mod.exec_time[1] >= 0
        /\ mod.audit => mod.audit_log.execution_time = mod.exec_time[1]
C5_Witness ==
    /\ modQuery # None
    /\ modRaised
    /\ ~mod.audit
    /\ mod.audit_log.status = "disabled"
    /\ mod.exec_time[1] > 0

\* C6: after any sequence of invocations the module (flag, score, audit record,
\* triggered and identified) is what the latest invocation alone would have
\* left in a newly constructed module, for some reading of the clock.
C6_ClearedBeforeInvocation ==
    modQuery # None =>
        \E start \in Ticks, end \in Ticks :
            /\ start <= end
            /\ mod = ModuleCall(FreshModule, modQuery[1], start, end).m
C6_Witness ==
    /\ modQuery # None
    /\ modPrev
    /\ ~mod.flag
    /\ mod.last_triggered = << >>

\* C7: with stop_on_flag, after any run triggered holds at most one entry; when
\* a bucket reaches its threshold and run did not raise it holds exactly one,
\* for the smallest such threshold, and no larger threshold is in identified.
C7_StopAtFirstBucket ==
    (modQuery # None /\ mod.stop_on_flag) =>
        /\ Len(mod.last_triggered) <= 1
        /\ (~modRaised /\ Reached # {}) => Len(mod.last_triggered) = 1
        /\ Len(mod.last_triggered) = 1 =>
            LET T == mod.last_triggered[1].threshold
            IN /\ T \in Reached
               /\ \A U \in Reached : T <= U
               /\ mod.last_triggered[1].count = BucketCount(T)
               /\ \A U \in DOMAIN mod.by_threshold : U > T => U \notin DOMAIN mod.last_identified
C7_Witness ==
    /\ modQuery # None
    /\ mod.stop_on_flag
    /\ Len(mod.last_triggered) = 1
    /\ \E U \in Reached : U > mod.last_triggered[1].threshold

\* C8: the count compared with a threshold is the number of distinct terms of
\* the bucket that occur in the query: a bucket of threshold T triggers only
\* when at least T different terms match.
C8_DistinctTermsCounted ==
    \A i \in DOMAIN mod.last_triggered :
        Cardinality(SeqRange(mod.last_triggered[i].matched)) >= mod.last_triggered[i].threshold

\* C9: flagged_response() is the empty string if and only if the module is not
\* flagged, in every reachable state and for every configuration.
C9_ResponseEmptyIffNotFlagged ==
    (FlaggedResponse(mod) = "") <=> ~mod.flag

\* ------------------------------------------- claims about pipes and requests
\* Whether content q, handled with no other request in flight, ends with the
\* pipe flagged whatever the order in which the workers complete.
FlaggedAlone(q) ==
    LET flags == [i \in DOMAIN mods |-> ModuleCall(mods[i], q, 0, 0).m.flag]
    IN CASE pipe.flagging_strategy = "any" -> \E i \in DOMAIN mods : flags[i]
         [] pipe.flagging_strategy = "all" ->
                ~pipe.stop_on_flag /\ \A i \in DOMAIN mods : flags[i]
         [] OTHER -> FALSE

\* C1: the audit_logs a request reads and returns hold no record produced by
\* the pipe run of another request (each record is one its own run produced,
\* or one still as reset), under every interleaving of two requests.
C1_OwnAuditLogsOnly ==
    \A r \in Requests :
        pc[r] = "done" =>
            /\ resp[r][1].audit_logs = logs[r][1].audit_logs
            /\ logs[r][1].writers \subseteq {r, "reset"}

\* C2: a request whose content is flagged when handled alone is answered with
\* flagged = true under every interleaving with another request.
C2_FlagSurvivesInterleaving ==
    \A r \in Requests :
        (pc[r] = "done" /\ FlaggedAlone(content[r][1])) => resp[r][1].flagged

\* C3: once a pipe run has finished, the pipe's flag is the aggregation of its
\* modules' flags: some module flagged with any, every module flagged with all
\* (true for a pipe without modules).
C3_FlagAggregation ==
    pc["A"] \in AfterRun =>
        /\ pipe.flagging_strategy = "any" =>
              (pipe.flag <=> \E i \in DOMAIN mods : mods[i].flag)
        /\ pipe.flagging_strategy = "all" =>
              (pipe.flag <=> \A i \in DOMAIN mods : mods[i].flag)
C3_Witness ==
    /\ pc["A"] = "done"
    /\ pipe.flagging_strategy = "all"
    /\ Len(mods) = 2
    /\ mods[1].flag
    /\ ~mods[2].flag
    /\ ~pipe.flag

C12_FlaggedExplanation ==
    (pc["A"] = "done" /\ pipe.flag) =>
        /\ resp["A"][1].status = 200
        /\ resp["A"][1].flagged
        /\ resp["A"][1].transformed_content = PipeFlaggedResponse(pipe, mods)

\* ------------------------------------------------ claims about the executor
\* What a pipe's run returns for a query when it does not raise.
RunResult(p, q) == IF p.behaviour = "rewrite" THEN Rewritten(p, q) ELSE q
\* What the invocation of a pipe returns: its run's text, or the query it was
\* given when the run raises.
CallResult(p, q) == IF p.behaviour = "raise" THEN q ELSE RunResult(p, q)

\* C11: execute_inputs / execute_outputs run the chain's pipes in order, pipe
\* i+1 on the text pipe i returned; with raise_on_flag the call raises the
\* chain's exception right after the first flagged pipe and runs no later
\* pipe; otherwise every pipe runs and the last pipe's text is returned.
C11_PipesInOrder ==
    LET chain == exPipes[exChain]
        n == Len(chain)
        k == Len(exSeen)
    IN exPc # "idle" =>
        /\ k <= n
        /\ \A i \in 1..k :
              /\ exSeen[i].input = (IF i = 1 THEN exIn[1] ELSE exSeen[i - 1].output)
              /\ exSeen[i].output = CallResult(chain[i], exSeen[i].input)
        /\ exPc = "run" =>
              /\ k = exIdx - 1
              /\ exRaise => \A j \in 1..k : ~chain[j].flag
        /\ exPc = "raised" =>
              /\ exRaise
              /\ k >= 1
              /\ chain[k].flag
              /\ \A j \in 1..(k - 1) : ~chain[j].flag
              /\ exError = Some(IF exChain = "input" THEN "FlaggedInputError"
                                ELSE "FlaggedOutputError")
        /\ exPc = "returned" =>
              /\ k = n
              /\ exText = (IF n = 0 THEN exIn ELSE Some(exSeen[n].output))
              /\ exError = None
              /\ exRaise => \A j \in 1..n : ~chain[j].flag
        /\ ~exRaise => exPc # "raised"
C11_Witness ==
    /\ exPc = "raised"
    /\ exChain = "input"
    /\ Len(exSeen) = 2
    /\ Len(exPipes.input) = 3
    /\ exSeen[1].output # exSeen[1].input
    /\ exSeen[2].input = exSeen[1].output

\* C20: when a pipe's run raises, the invocation of the pipe returns exactly
\* the query it was given, and with audit enabled the pipe's record has status
\* error with the message and the traceback in log.
C20_PipeErrorSwallowed ==
    \A i \in 1..Len(exSeen) :
        exSeen[i].raised =>
            /\ exSeen[i].output = exSeen[i].input
            /\ LET p == exPipes[exChain][i]
               IN p.audit =>
                    /\ p.audit_log.status = "error"
                    /\ {"message", "traceback"} \subseteq DOMAIN p.audit_log.log
C20_Witness ==
    /\ exPc = "returned"
    /\ Len(exSeen) = 2
    /\ exSeen[1].raised
    /\ exSeen[1].output = exSeen[1].input
    /\ ~exSeen[2].raised
    /\ exPipes[exChain][1].audit
    /\ exPipes[exChain][1].audit_log.status = "error"

\* --------------------------------------------- claims about the audit store
\* The rows a transform step adds for the audit_logs it returns, under the
\* message_id of the request.
PersistedNow ==
    LET req == hreq'[1]
        logs_ == hresp'[1].audit_logs
    IN /\ req.message_id # None
       /\ Len(store') = Len(store) + Len(logs_)
       /\ SubSeq(store', 1, Len(store)) = store
       /\ \A j \in DOMAIN logs_ :
            /\ store'[Len(store) + j].message_id = req.message_id[1]
            /\ store'[Len(store) + j].content = ToJsonStr(logs_[j])

\* C13: with server-side writes enabled, a transform request answered 200 has
\* its audit records stored under its message_id if and only if it set
\* write_log.
C13_PersistedIffWriteLog ==
    [][(/\ writeLogs
        /\ hreq' # None
        /\ hreq'[1].kind = "transform"
        /\ hresp'[1].status = 200) => (hreq'[1].write_log <=> PersistedNow)]_vars

\* C14: with SECURAG_SERVER_WRITE_LOGS false no request executes an insert, a
\* select or a delete, the table stays as it was, and every audit GET and
\* DELETE is answered 403.
C14_WritesDisabled ==
    ~writeLogs =>
        /\ dbOps = {}
        /\ store = << >>
        /\ ~ins.called
        /\ (hreq # None /\ hreq[1].kind \in {"get", "delete"}) => hresp[1].status = 403
C14_Witness ==
    /\ ~writeLogs
    /\ hreq # None
    /\ hreq[1].kind = "delete"
    /\ hresp[1].status = 403
    /\ \E j \in DOMAIN exPipes.input : exPipes.input[j].audit_log.status = "success"

\* C15: a call of _insert_audit with n entries leaves the table with the rows
\* it had and either n new rows of the given message_id, each with a uuid no
\* other row has, or, when an insert of the call fails, none of its rows.
C15_InsertAtomic ==
    (ins.called /\ ins.out.ran) =>
        LET before == ins.before
            after == ins.out.store
            n == Len(ins.content.items)
        IN /\ (hreq # None /\ hreq[1].kind = "insert") => store = after
           /\ SubSeq(after, 1, Len(before)) = before
           /\ IF ins.out.raised = ""
              THEN /\ Len(after) = Len(before) + n
                   /\ \A j \in 1..n :
                        /\ after[Len(before) + j].message_id = ins.message_id
                        /\ after[Len(before) + j].content = ToJsonStr(ins.content.items[j])
                   /\ \A a, b \in DOMAIN after : a # b => after[a].uuid # after[b].uuid
              ELSE after = before
C15_Witness ==
    /\ ins.called
    /\ ins.out.ran
    /\ ins.out.raised # ""
    /\ Len(ins.content.items) = 2
    /\ Len(ins.out.trace) = 2
    /\ ins.out.trace[1].ok
    /\ store = ins.before

\* C19: on SQLite a row's insert that meets "database is locked" is tried
\* again after 50, 100, 200, 400 and 800 ms in that order, at most 6 times in
\* all; it succeeds at the first attempt that succeeds, and fails with no
\* further attempt at the 6th locked attempt or at any other error.
C19_RetrySchedule ==
    (ins.called /\ ins.out.ran /\ dialect = "sqlite") =>
        \A k \in DOMAIN ins.out.trace :
            LET t == ins.out.trace[k]
                locks == IF ins.oracle.at = k THEN ins.oracle.locks ELSE 0
                then == IF ins.oracle.at = k THEN ins.oracle.then ELSE "ok"
            IN /\ t.attempts <= 6
               /\ t.attempts = (IF locks >= 6 THEN 6 ELSE locks + 1)
               /\ t.slept = SubSeq(<< 50, 100, 200, 400, 800 >>, 1, t.attempts - 1)
               /\ t.ok <=> (locks <= 5 /\ then = "ok")
C19_Witness ==
    /\ ins.called
    /\ ins.out.ran
    /\ dialect = "sqlite"
    /\ ins.out.raised = ""
    /\ Len(ins.out.trace) = 2
    /\ ins.out.trace[2].attempts = 6
    /\ ins.out.trace[2].slept = << 50, 100, 200, 400, 800 >>

\* C16: insert(mid, C) on an empty trail followed by select(mid) returns a
\* list whose element equals C, for C an object, a number, null or a string.
C16_RoundTrip ==
    (/\ ins.called
     /\ ins.before = << >>
     /\ store = ins.out.store
     /\ Len(store) = 1
     /\ hreq # None
     /\ hreq[1].kind = "get"
     /\ hreq[1].message_id = ins.message_id) =>
        /\ hresp[1].status = 200
        /\ hresp[1].items = ins.content.items

\* The contents of the rows of message_id mid, in stored order.
StoredContents(mid) ==
    LET rows == SelectSeq(store, LAMBDA row : row.message_id = mid)
    IN [j \in DOMAIN rows |-> ReadContent(rows[j].content)]
\* Whether an item has an id that is not null.
Keyed(d) == d.t = "obj" /\ d.id # None /\ d.id[1] # JNull

\* C17: select(mid) succeeds for every table and returns exactly the contents
\* of the rows of mid, those with an id first by ascending id, then the others,
\* entries with equal keys in their stored order.
C17_SelectOrdered ==
    (hreq # None /\ hreq[1].kind = "get") =>
        /\ hresp[1].status = 200
        /\ LET src == StoredContents(hreq[1].message_id)
               items == hresp[1].items
               n == Len(src)
           IN /\ Len(items) = n
              /\ \E perm \in [1..n -> 1..n] :
                    /\ \A a, b \in 1..n : a # b => perm[a] # perm[b]
                    /\ \A j \in 1..n : items[j] = src[perm[j]]
                    /\ \A a, b \in 1..n : a < b =>
                          \/ Keyed(items[a]) /\ ~Keyed(items[b])
                          \/ /\ ~Keyed(items[a]) /\ ~Keyed(items[b])
                             /\ perm[a] < perm[b]
                          \/ /\ Keyed(items[a]) /\ Keyed(items[b])
                             /\ items[a].id[1].t = items[b].id[1].t
                             /\ \/ items[a].id[1].n < items[b].id[1].n
                                \/ /\ items[a].id[1] = items[b].id[1]
                                   /\ perm[a] < perm[b]

\* C18: delete(mid) removes every row of mid and no other row and returns the
\* number removed; a second delete(mid) right after it returns 0, and a
\* select(mid) right after it returns the empty list.
C18_DeleteIdempotent ==
    [][(hreq' # None /\ hresp'[1].status = 200) =>
        /\ hreq'[1].kind = "delete" =>
              /\ \A j \in DOMAIN store' : store'[j].message_id # hreq'[1].message_id
              /\ \E keep \in SUBSET DOMAIN store :
                    /\ keep = {j \in DOMAIN store : store[j].message_id # hreq'[1].message_id}
                    /\ Len(store') = Cardinality(keep)
                    /\ \A j \in keep :
                          store'[Cardinality({l \in keep : l <= j})] = store[j]
              /\ hresp'[1].deleted = Len(store) - Len(store')
              /\ (hprev' # None /\ hprev'[1].message_id = hreq'[1].message_id)
                    => hresp'[1].deleted = 0
        /\ (hreq'[1].kind = "get" /\ hprev' # None
              /\ hprev'[1].message_id = hreq'[1].message_id)
              => hresp'[1].items = << >>]_vars
C18_Witness ==
    /\ hreq # None
    /\ hreq[1].kind = "delete"
    /\ hresp[1].status = 200
    /\ hresp[1].deleted = 0
    /\ hprev # None
    /\ hprev[1].message_id = hreq[1].message_id
    /\ hprev[1].deleted = 2
    /\ Len(store) = 0

\* ------------------------------------------- claims about pipes and modules
\* C21: after initialize_modules succeeds the module names are pairwise
\* distinct and the module at position i has id i, in the module and in its
\* audit record; when two modules share a name the call raises ValueError.
C21_IdsInDeclarationOrder ==
    initd # None =>
        /\ initd = Some("") =>
              /\ \A i, j \in DOMAIN mods : i # j => mods[i].name # mods[j].name
              /\ \A i \in DOMAIN mods :
                    /\ mods[i].id = Some(i)
                    /\ mods[i].audit_log.id = Some(i)
                    /\ mods[i].audit_log.name = mods[i].name
        /\ (\E i, j \in DOMAIN mods : i # j /\ mods[i].name = mods[j].name)
              => initd = Some("ValueError")
C21_Witness ==
    /\ initd = Some("")
    /\ Len(mods) = 2
    /\ mods[2].audit_log.id = Some(2)
    /\ mods[1].audit_log.status # "noexec"

\* Whether the arguments of a constructor call are ones the claim names: no
\* map or an empty map, a key that is no integer >= 1, or (RegexFilter) a
\* pattern that does not compile.
Misconfigured(c) ==
    \/ ~c.raw.is_dict
    \/ c.raw.entries = << >>
    \/ \E i \in DOMAIN c.raw.entries :
          LET e == c.raw.entries[i]
          IN \/ ~e.key.int
             \/ e.key.val < 1
             \/ /\ c.kind = "RegexFilter"
                /\ e.value.is_list
                /\ \E j \in DOMAIN e.value.items : "(" \in SeqRange(e.value.items[j].lit)

\* C29: a KeywordFilter or RegexFilter constructor raises and creates no
\* instance when the map is empty, a key is not an integer >= 1 or a pattern
\* does not compile; every instance has a non-empty map with all keys >= 1.
C29_ValidatedConstruction ==
    /\ DOMAIN mod.by_threshold # {}
    /\ \A t \in DOMAIN mod.by_threshold : t \in Int /\ t >= 1
    /\ ctor # None =>
          /\ Misconfigured(ctor[1]) =>
                /\ ctor[1].raised \in {"ValueError", "TypeError"}
                /\ ctor[1].instance = None
          /\ ctor[1].instance # None =>
                /\ ctor[1].raised = ""
                /\ mod.by_threshold = ctor[1].instance[1].by_threshold
                /\ DOMAIN ctor[1].instance[1].by_threshold # {}
                /\ \A t \in DOMAIN ctor[1].instance[1].by_threshold : t >= 1
C29_Witness ==
    /\ ctor # None
    /\ ctor[1].kind = "RegexFilter"
    /\ ctor[1].raised = "ValueError"
    /\ Len(ctor[1].raw.entries) = 2
    /\ \A i \in DOMAIN ctor[1].raw.entries :
          ctor[1].raw.entries[i].key.int /\ ctor[1].raw.entries[i].key.val >= 1
    /\ ctor[1].raw.entries[2].value = ListOf(<< Paren("RegexFilter") >>)
    /\ mod.kind = "KeywordFilter"
    /\ DOMAIN mod.by_threshold = {1, 2}

\* C30: after a run that did not raise the module is flagged iff some bucket
\* has a match count >= its threshold; with stop_on_flag false identified has
\* an entry for every threshold and triggered lists exactly the buckets with
\* count >= T, by ascending threshold, each with its count and its matches.
C30_FlagIffBucketReached ==
    (modQuery # None /\ ~modRaised) =>
        /\ mod.flag <=> Reached # {}
        /\ ~mod.stop_on_flag =>
              /\ DOMAIN mod.last_identified = DOMAIN mod.by_threshold
              /\ \A T \in DOMAIN mod.by_threshold :
                    mod.last_identified[T] = Matched(mod, mod.by_threshold[T], modQuery[1].val)
              /\ {mod.last_triggered[i].threshold : i \in DOMAIN mod.last_triggered} = Reached
              /\ \A i, j \in DOMAIN mod.last_triggered :
                    i < j => mod.last_triggered[i].threshold < mod.last_triggered[j].threshold
              /\ \A i \in DOMAIN mod.last_triggered :
                    mod.last_triggered[i].count = BucketCount(mod.last_triggered[i].threshold)
C30_Witness ==
    /\ modQuery # None
    /\ ~modRaised
    /\ ~mod.stop_on_flag
    /\ mod.kind = "RegexFilter"
    /\ Len(mod.last_triggered) = 2
    /\ mod.last_triggered[1].threshold = 1

\* C26: the audit tree a request reads holds, for every pipe, the pipe's
\* audit record together with a modules list of one audit record per module
\* of the pipe, in declaration order, whatever the audit settings.
C26_FullAuditTree ==
    logs["A"] # None =>
        \A k \in DOMAIN logs["A"][1].audit_logs :
            LET tree == logs["A"][1].audit_logs[k]
            IN /\ tree.name = pipe.name
               /\ "modules" \in DOMAIN tree
               /\ Len(tree.modules) = Len(mods)
               /\ \A i \in DOMAIN mods :
                     /\ tree.modules[i].name = mods[i].name
                     /\ tree.modules[i].id = Some(i)

\* C24: a thread pipe gives every module the original input, and returns the
\* input unchanged whatever its modules return and in whatever order they
\* complete: once the run has returned, every audited module that ran logged
\* the request's content as its input, the pipe logged the content as its
\* input and as its output, and the answer carries the content.
C24_ThreadPipeSameInput ==
    pc["A"] \in AfterRun =>
        /\ \A i \in DOMAIN mods :
              (fut["A"][i] = "done" /\ mods[i].audit) =>
                  mods[i].audit_log.log.input = content["A"][1]
        /\ pipe.audit =>
              /\ pipe.audit_log.log.input = content["A"][1]
              /\ pipe.audit_log.log.output = content["A"][1]
        /\ resp["A"] # None => resp["A"][1].transformed_content = content["A"][1]
\* Two audited modules ran, the first declared returned a text other than the
\* one it was given, and the pipe returned the request's content.
C24_Witness ==
    /\ pc["A"] = "done"
    /\ pipe.audit
    /\ Len(mods) = 2
    /\ \A i \in DOMAIN mods : fut["A"][i] = "done" /\ mods[i].audit
    /\ mods[1].audit_log.log.output # mods[1].audit_log.log.input
    /\ mods[2].kind = "KeywordFilter"
    /\ pipe.audit_log.log.output = content["A"][1]

\* The position of the first flagged module of the pipe, or one past the last
\* module when none is flagged.
FirstFlagged ==
    IF \E i \in DOMAIN mods : mods[i].flag
    THEN CHOOSE i \in DOMAIN mods : mods[i].flag /\ \A j \in 1..(i - 1) : ~mods[j].flag
    ELSE Len(mods) + 1

\* C23: a sequential pipe calls its modules in declaration order, the first on
\* the query and each next one on what the one before returned, and returns
\* what the last one called returned; with stop_on_flag no module after the
\* first flagged one is called, and those modules keep status noexec and flag
\* false; without it every module is called; the audit records of the modules
\* are listed in declaration order.
C23_SequentialOrder ==
    seqRet # None =>
        LET query == content["A"][1]
            n == Len(seqSeen)
        IN /\ \A k \in 1..n : seqSeen[k].module = k
           /\ n >= 1 /\ seqSeen[1].input = query
           /\ \A k \in 2..n : seqSeen[k].input = seqSeen[k - 1].output
           /\ seqRet[1] = seqSeen[n].output
           /\ n = IF pipe.stop_on_flag /\ FirstFlagged <= Len(mods)
                  THEN FirstFlagged ELSE Len(mods)
           /\ \A i \in (n + 1)..Len(mods) :
                 mods[i].audit_log.status = "noexec" /\ ~mods[i].flag
           /\ \A k \in 1..n :
                 mods[k].audit =>
                     /\ mods[k].audit_log.status \in {"success", "error"}
                     /\ mods[k].audit_log.status = "success" =>
                            /\ mods[k].audit_log.log.input = seqSeen[k].input
                            /\ mods[k].audit_log.log.output = seqSeen[k].output
           /\ (logs["A"] # None /\ pipe.audit) =>
                 LET tree == logs["A"][1].audit_logs[1]
                 IN /\ Len(tree.modules) = Len(mods)
                    /\ \A i \in DOMAIN mods :
                          /\ tree.modules[i].id = Some(i)
                          /\ tree.modules[i].name = mods[i].name
                          /\ tree.modules[i] = mods[i].audit_log
\* A rewriting module, then a keyword filter that flags on what the rewriting
\* module returned and not on the query, which stops the pipe before the third
\* module (when there is one); the audit records were read.
C23_Witness ==
    /\ seqRet # None
    /\ logs["A"] # None
    /\ pipe.audit /\ pipe.stop_on_flag
    /\ content["A"] = Some(Str(<< >>))
    /\ Len(mods) >= 2
    /\ Len(seqSeen) = 2
    /\ mods[1].kind = "Custom" /\ mods[2].kind = "KeywordFilter"
    /\ mods[2].flag /\ ~mods[1].flag
    /\ seqSeen[2].input = Str(KwA)

C27_BadRequestRejected ==
    [][(/\ hreq' # None
        /\ hreq'[1].kind = "transform"
        /\ \/ hreq'[1].content = None
           \/ hreq'[1].message_id = None /\ hreq'[1].write_log /\ writeLogs)
       => /\ hresp'[1].status = 400
          /\ exPipes' = exPipes
          /\ store' = store
          /\ ins' = ins
          /\ dbOps' = dbOps]_vars
\* A request with content and no message_id that asks for logs was answered
\* 400 by a server that writes logs and has rows from earlier requests.
C27_Witness ==
    /\ hreq # None
    /\ hreq[1].kind = "transform"
    /\ hreq[1].content # None
    /\ hreq[1].message_id = None
    /\ hreq[1].write_log
    /\ writeLogs
    /\ hresp[1].status = 400
    /\ store # << >>

\* C28: a transform request whose audit records failed to persist is answered
\* 409 when the failure is an integrity error and 500 otherwise.
C28_IntegrityConflict ==
    (/\ hreq # None
     /\ hreq[1].kind = "transform"
     /\ ~BadRequest(hreq[1].content, hreq[1].message_id, hreq[1].write_log, writeLogs)
     /\ hreq[1].write_log /\ writeLogs /\ Truthy(hreq[1].message_id)
     /\ ins.out.raised # "")
        => hresp[1].status = IF ins.out.raised = "IntegrityError" THEN 409 ELSE 500

\* ------------------------------------------- claims about conversation turns
\* C22: in a turn whose input the gateway reported flagged, transform-input
\* is the only gateway call ever made; in a turn whose input it reported
\* unflagged, the calls are transform-input, ai-response, transform-output in
\* this order, each made only after the one before it, and all three have been
\* made when the turn is answered 201.
C22_FlaggedSkipsGeneration ==
    LET t == turn["A"]
        all == << "transform-input", "ai-response", "transform-output" >>
    IN /\ Len(t.calls) <= 3 /\ t.calls = SubSeq(all, 1, Len(t.calls))
       /\ t.input_flagged = Some(TRUE) => t.calls = << "transform-input" >>
       /\ (t.input_flagged = Some(FALSE) /\ t.status = Some(201)) => t.calls = all
       /\ t.status = Some(201) => t.input_flagged # None
\* A flagged turn answered 201 whose assistant message says that nothing was
\* generated, in a conversation whose first turn was unflagged and generated.
C22_Witness ==
    /\ turn["A"].status = Some(201)
    /\ turn["A"].view = "continue"
    /\ turn["A"].input_flagged = Some(TRUE)
    /\ turn["A"].calls = << "transform-input" >>
    /\ Len(msgs) = 4
    /\ \A j \in DOMAIN msgs : msgs[j].conversation = 1
    /\ msgs[2].content = "generated"
    /\ msgs[4].content = "Not Generated due to flagged Input"
    /\ msgs[4].transformed_content = msgs[3].transformed_content

\* C34: a turn whose transform-input or transform-output call the gateway
\* answered with a status other than 200 is answered 400, and when the failed
\* call is transform-input no ai-response call was made and no assistant
\* message follows the user message.
C34_GatewayFailureIs400 ==
    LET t == turn["A"]
    IN (/\ t.pc = "done"
        /\ t.calls # << >>
        /\ t.calls[Len(t.calls)] \in {"transform-input", "transform-output"}
        /\ t.reply_status # Some(200))
           => /\ t.status = Some(400)
              /\ t.calls = << "transform-input" >> =>
                    ~\E j \in DOMAIN msgs :
                        /\ msgs[j].conversation = t.conversation[1]
                        /\ msgs[j].order = t.user_msg[1].order + 1

\* C35: whatever the interleaving of two turns on a conversation, no create
\* of a message meets an order already taken: no turn ends with the 500 of
\* an IntegrityError (a 500 that no gateway answer caused), and a turn
\* answered 201 has its assistant message right after its user message.
C35_NoOrderClash ==
    \A r \in {"A", "B"} :
        LET t == turn[r]
        IN /\ ~(t.status = Some(500) /\ t.reply_status # Some(500))
           /\ \A j, k \in DOMAIN msgs :
                 (msgs[j].conversation = msgs[k].conversation
                     /\ msgs[j].order = msgs[k].order) => j = k
           /\ t.status = Some(201) =>
                 \E j \in DOMAIN msgs :
                     /\ msgs[j].conversation = t.conversation[1]
                     /\ msgs[j].role = "assistant"
                     /\ msgs[j].order = t.user_msg[1].order + 1

\* -------------------------------------------------- claims about the paging
\* The pages of a pager put one after the other.
RECURSIVE Flat(_)
Flat(pages) == IF pages = << >> THEN << >> ELSE Head(pages) \o Flat(Tail(pages))
\* The orders of the messages of conversation 1.
OrdersOfOne == {msgs[j].order : j \in {k \in DOMAIN msgs : msgs[k].conversation = 1}}

\* C37: following next_from_order from the first page gives pages of at most
\* limit messages, each in ascending order and each below the page before it;
\* the cursor is null exactly when no message below those returned remains;
\* and when it is null every message of the conversation was returned exactly
\* once.
C37_MessagesPagedOnce ==
    mPager.status = Some(200) =>
        LET pages == mPager.pages
            got == Flat(pages)
        IN /\ \A k \in DOMAIN pages :
                 /\ Len(pages[k]) <= pgLimit
                 /\ \A i, j \in DOMAIN pages[k] : i < j => pages[k][i] < pages[k][j]
                 /\ k > 1 => \A x \in SeqRange(pages[k]), y \in SeqRange(pages[k - 1]) : x < y
           /\ SeqRange(got) \subseteq OrdersOfOne
           /\ \A i, j \in DOMAIN got : got[i] = got[j] => i = j
           /\ mPager.cursor = None <=>
                 ~\E o \in OrdersOfOne : \A x \in SeqRange(got) : o < x
           /\ mPager.done => SeqRange(got) = OrdersOfOne
\* Three messages paged two at a time: the page 2, 3, then the page 1, with
\* messages of another conversation in the table.
C37_Witness ==
    /\ mPager.done
    /\ mPager.status = Some(200)
    /\ pgLimit = 2
    /\ mPager.pages = << << 2, 3 >>, << 1 >> >>
    /\ \E j \in DOMAIN msgs : msgs[j].conversation = 2

\* C36: following next_from_updated_at from the first page until it is null
\* returns every conversation exactly once.
C36_ConversationsPagedOnce ==
    cPager.done =>
        LET got == Flat(cPager.pages)
        IN /\ SeqRange(got) = convs
           /\ \A i, j \in DOMAIN got : got[i] = got[j] => i = j

\* ------------------------------------------------ claims about a pipe's flag
\* C31: when the run of a pipe raises, handling the exception leaves the
\* pipe's flag as it was when the exception was raised, whatever its modules'
\* flags: false when neither set_flag nor _force_set_flag was called since
\* the reset; the audit record gets status error and that flag.
C31_PipeErrorFailsOpen ==
    [][(raised'["A"] /\ ~raised["A"])
       => /\ pipe'.flag = pipe.flag
          /\ ~flagHist.called => ~pipe'.flag
          /\ pipe'.audit_log.status = "error"
          /\ pipe'.audit_log.flag = pipe.flag]_vars
\* The run of a pipe with strategy any raised after a module flagged, before
\* any call of set_flag: the pipe is not flagged.
C31_Witness ==
    /\ pc["A"] = "done"
    /\ raised["A"]
    /\ pipe.flagging_strategy = "any"
    /\ \E i \in DOMAIN mods : mods[i].flag
    /\ ~flagHist.called
    /\ ~pipe.flag
    /\ pipe.audit_log.status = "error"

\* C33: with strategy manual the pipe's flag is the last boolean passed to
\* set_flag or _force_set_flag since the reset, false if none, whatever the
\* modules' flags, and set_flag() leaves the pipe as it is; with strategy any
\* (all) set_flag gives the flag "some (every) module is flagged" whatever its
\* argument.
C33_ManualFlag ==
    pc["A"] \in {"body", "done"} =>
        /\ pipe.flagging_strategy = "manual" =>
              /\ pipe.flag = (flagHist.last = Some(TRUE))
              /\ PipeSetFlag(pipe, mods, None) = pipe
        /\ pipe.flagging_strategy = "any" =>
              \A flag \in {None, Some(TRUE), Some(FALSE)} :
                  PipeSetFlag(pipe, mods, flag).flag = (\E i \in DOMAIN mods : mods[i].flag)
        /\ pipe.flagging_strategy = "all" =>
              \A flag \in {None, Some(TRUE), Some(FALSE)} :
                  PipeSetFlag(pipe, mods, flag).flag = (\A i \in DOMAIN mods : mods[i].flag)
\* A manual pipe whose run passed true to set_flag, then called set_flag(),
\* and returned with no module flagged: the pipe is flagged.
C33_Witness ==
    /\ pc["A"] = "done"
    /\ ~raised["A"]
    /\ pipe.flagging_strategy = "manual"
    /\ flagHist.last = Some(TRUE)
    /\ pipe.flag
    /\ \A i \in DOMAIN mods : ~mods[i].flag
    /\ pipe.audit_log.status = "success"

\* C32: in a thread pipe with strategy all and stop_on_flag, a run in which
\* a module was cancelled ends with the pipe not flagged, the cancelled module
\* having kept flag false; the pipe ends flagged only when every module
\* completed and flagged.
C32_CancelledNeverFlags ==
    (pc["A"] \in AfterRun /\ pipe.stop_on_flag /\ pipe.flagging_strategy = "all") =>
        /\ \A i \in DOMAIN mods : fut["A"][i] = "cancelled" => ~mods[i].flag /\ ~pipe.flag
        /\ pipe.flag => \A i \in DOMAIN mods : fut["A"][i] = "done" /\ mods[i].flag
\* Two keyword filters, the first completed and flagged, the second was
\* cancelled: the pipe ended not flagged.
C32_Witness ==
    /\ pc["A"] = "done"
    /\ pipe.stop_on_flag
    /\ pipe.flagging_strategy = "all"
    /\ Len(mods) = 2
    /\ fut["A"][1] = "done"
    /\ mods[1].flag
    /\ fut["A"][2] = "cancelled"
    /\ mods[2].kind = "KeywordFilter"
    /\ ~pipe.flag
====
